---- MODULE Spec2Model ----
(***************************************************************************)
(* The studio dispatcher of bermudafunk: the state machine of              *)
(* bermudafunk/dispatcher/dispatcher.py driven by the transition table of  *)
(* bermudafunk/dispatcher/transitions.py, its three timer tasks and the    *)
(* button-event consumer, all running as callbacks of one asyncio event    *)
(* loop.  The loop's ready queue is modelled as a FIFO sequence: one step  *)
(* of the model runs one callback from its start to its next await.        *)
(***************************************************************************)
EXTENDS Integers, Sequences, FiniteSets, TLC

(* ------------------------------ bounds --------------------------------- *)
NumStudios == 3
MaxTasks == 3
MaxPutters == 1
MaxPending == 2
MaxPressing == 1
MaxExternal == 3
MaxCount == 16

(* --------------------------- configuration ----------------------------- *)
None == 0
Studios == 1 .. NumStudios
TaskIds == 1 .. MaxTasks

\* automat.selector_value; the studios take the positions after it
automat_selector_value == 1

\* Dispatcher._studios_to_selector_value
studios_to_selector_value == [s \in Studios |-> s + 1]

\* data_types.Button
Button == {"takeover", "release", "immediate"}

(* ------------------------- names and substrings ------------------------ *)
\* The words of a state name, trigger name or timer name.  The code tests
\* `timer in name` and `'X' in name` on the strings; all names are words
\* joined by "_", and a word-wise infix test agrees with the character-wise
\* one on this vocabulary.
Words ==
    [automat_on_air |-> <<"automat", "on", "air">>,
     automat_on_air_immediate_state_X |->
        <<"automat", "on", "air", "immediate", "state", "X">>,
     from_automat_on_air_change_to_studio_X_on_next_hour |->
        <<"from", "automat", "on", "air", "change", "to", "studio", "X", "on", "next", "hour">>,
     studio_X_on_air |-> <<"studio", "X", "on", "air">>,
     from_studio_X_on_air_change_to_automat_on_next_hour |->
        <<"from", "studio", "X", "on", "air", "change", "to", "automat", "on", "next", "hour">>,
     studio_X_on_air_immediate_state |->
        <<"studio", "X", "on", "air", "immediate", "state">>,
     studio_X_on_air_immediate_release |->
        <<"studio", "X", "on", "air", "immediate", "release">>,
     from_studio_X_on_air_change_to_studio_Y_on_next_hour |->
        <<"from", "studio", "X", "on", "air", "change", "to", "studio", "Y", "on", "next", "hour">>,
     studio_X_on_air_studio_Y_takeover_request |->
        <<"studio", "X", "on", "air", "studio", "Y", "takeover", "request">>,
     noop |-> <<"noop">>,
     takeover_X |-> <<"takeover", "X">>,
     release_X |-> <<"release", "X">>,
     immediate_X |-> <<"immediate", "X">>,
     takeover_Y |-> <<"takeover", "Y">>,
     release_Y |-> <<"release", "Y">>,
     immediate_Y |-> <<"immediate", "Y">>,
     next_hour |-> <<"next", "hour">>,
     immediate_state_timeout |-> <<"immediate", "state", "timeout">>,
     immediate_release_timeout |-> <<"immediate", "release", "timeout">>,
     immediate_state |-> <<"immediate", "state">>,
     immediate_release |-> <<"immediate", "release">>,
     X |-> <<"X">>,
     Y |-> <<"Y">>]

\* Python's `sub in name` for two names of the vocabulary
In(sub, name) ==
    LET s == Words[sub]
        n == Words[name]
    IN \E i \in 0 .. (Len(n) - Len(s)) :
          \A j \in 1 .. Len(s) : n[i + j] = s[j]

\* transitions.States: the names of the states
States ==
    {"automat_on_air",
     "automat_on_air_immediate_state_X",
     "from_automat_on_air_change_to_studio_X_on_next_hour",
     "studio_X_on_air",
     "from_studio_X_on_air_change_to_automat_on_next_hour",
     "studio_X_on_air_immediate_state",
     "studio_X_on_air_immediate_release",
     "from_studio_X_on_air_change_to_studio_Y_on_next_hour",
     "studio_X_on_air_studio_Y_takeover_request",
     "noop"}

Row(t, s, d, sw) == [trigger |-> t, source |-> s, dest |-> d, switch_to_y |-> sw]

\* transitions.transitions, in the order of the list
transitions ==
    << Row("takeover_X", "automat_on_air", "from_automat_on_air_change_to_studio_X_on_next_hour", FALSE),
       Row("immediate_X", "automat_on_air", "automat_on_air_immediate_state_X", FALSE),

       Row("takeover_X", "automat_on_air_immediate_state_X", "studio_X_on_air", FALSE),
       Row("release_X", "automat_on_air_immediate_state_X", "automat_on_air", FALSE),
       Row("immediate_X", "automat_on_air_immediate_state_X", "automat_on_air", FALSE),
       Row("immediate_state_timeout", "automat_on_air_immediate_state_X", "automat_on_air", FALSE),

       Row("takeover_X", "from_automat_on_air_change_to_studio_X_on_next_hour", "automat_on_air", FALSE),
       Row("release_X", "from_automat_on_air_change_to_studio_X_on_next_hour", "automat_on_air", FALSE),
       Row("next_hour", "from_automat_on_air_change_to_studio_X_on_next_hour", "studio_X_on_air", FALSE),

       Row("release_X", "studio_X_on_air", "from_studio_X_on_air_change_to_automat_on_next_hour", FALSE),
       Row("immediate_X", "studio_X_on_air", "studio_X_on_air_immediate_state", FALSE),
       Row("takeover_Y", "studio_X_on_air", "studio_X_on_air_studio_Y_takeover_request", FALSE),

       Row("takeover_X", "from_studio_X_on_air_change_to_automat_on_next_hour", "studio_X_on_air", FALSE),
       Row("release_X", "from_studio_X_on_air_change_to_automat_on_next_hour", "studio_X_on_air", FALSE),
       Row("takeover_Y", "from_studio_X_on_air_change_to_automat_on_next_hour",
           "from_studio_X_on_air_change_to_studio_Y_on_next_hour", FALSE),
       Row("next_hour", "from_studio_X_on_air_change_to_automat_on_next_hour", "automat_on_air", FALSE),

       Row("immediate_X", "studio_X_on_air_immediate_state", "studio_X_on_air", FALSE),
       Row("immediate_state_timeout", "studio_X_on_air_immediate_state", "studio_X_on_air", FALSE),
       Row("release_X", "studio_X_on_air_immediate_state", "studio_X_on_air_immediate_release", FALSE),

       Row("takeover_X", "studio_X_on_air_immediate_release", "studio_X_on_air_immediate_state", FALSE),
       Row("release_X", "studio_X_on_air_immediate_release", "studio_X_on_air_immediate_state", FALSE),
       Row("takeover_Y", "studio_X_on_air_immediate_release", "studio_X_on_air", TRUE),
       Row("immediate_release_timeout", "studio_X_on_air_immediate_release", "automat_on_air", FALSE),

       Row("takeover_Y", "from_studio_X_on_air_change_to_studio_Y_on_next_hour",
           "from_studio_X_on_air_change_to_automat_on_next_hour", FALSE),
       Row("release_Y", "from_studio_X_on_air_change_to_studio_Y_on_next_hour",
           "from_studio_X_on_air_change_to_automat_on_next_hour", FALSE),
       Row("next_hour", "from_studio_X_on_air_change_to_studio_Y_on_next_hour", "studio_X_on_air", TRUE),

       Row("takeover_Y", "studio_X_on_air_studio_Y_takeover_request", "studio_X_on_air", FALSE),
       Row("release_Y", "studio_X_on_air_studio_Y_takeover_request", "studio_X_on_air", FALSE),
       Row("release_X", "studio_X_on_air_studio_Y_takeover_request",
           "from_studio_X_on_air_change_to_studio_Y_on_next_hour", FALSE) >>

\* load_states_transitions(): the rows handed to Dispatcher.__init__, which
\* reads the swap flag of a row under the key y_to_x
load_states_transitions ==
    [i \in 1 .. Len(transitions) |->
        [trigger |-> transitions[i].trigger,
         source |-> transitions[i].source,
         dest |-> transitions[i].dest,
         y_to_x |-> transitions[i].switch_to_y]]

(* -------------------------------- lamps -------------------------------- *)
\* data_types.StudioLampStatus with io.common.LampState values
StudioLampStatus(green, yellow, red) == [green |-> green, yellow |-> yellow, red |-> red]

Dark == StudioLampStatus("OFF", "OFF", "OFF")

\* a target that leaves the automat's lamps out
LampStateTarget_without_automat(automat, lx, ly, other) ==
    [automat |-> Dark, x |-> lx, y |-> ly, other |-> other]

\* transitions.LampStateTarget
LampStateTarget(automat, lx, ly, other) == [automat |-> automat, x |-> lx, y |-> ly, other |-> other]

\* the lamp_state_target of each member of transitions.States
lamp_state_target ==
    [automat_on_air |->
        LampStateTarget(StudioLampStatus("ON", "OFF", "OFF"), Dark, Dark, Dark),
     automat_on_air_immediate_state_X |->
        LampStateTarget(StudioLampStatus("ON", "OFF", "OFF"),
                        StudioLampStatus("OFF", "OFF", "ON"), Dark, Dark),
     from_automat_on_air_change_to_studio_X_on_next_hour |->
        LampStateTarget(StudioLampStatus("ON", "OFF", "OFF"),
                        StudioLampStatus("BLINK", "OFF", "OFF"), Dark, Dark),
     studio_X_on_air |->
        LampStateTarget(Dark, StudioLampStatus("ON", "OFF", "OFF"), Dark, Dark),
     from_studio_X_on_air_change_to_automat_on_next_hour |->
        LampStateTarget(StudioLampStatus("BLINK", "OFF", "OFF"),
                        StudioLampStatus("ON", "BLINK", "OFF"), Dark, Dark),
     studio_X_on_air_immediate_state |->
        LampStateTarget(Dark, StudioLampStatus("ON", "OFF", "ON"), Dark, Dark),
     studio_X_on_air_immediate_release |->
        LampStateTarget(StudioLampStatus("BLINK_FAST", "OFF", "OFF"),
                        StudioLampStatus("ON", "BLINK", "ON"), Dark,
                        StudioLampStatus("OFF", "BLINK", "BLINK")),
     from_studio_X_on_air_change_to_studio_Y_on_next_hour |->
        LampStateTarget(Dark, StudioLampStatus("ON", "ON", "OFF"),
                        StudioLampStatus("BLINK", "OFF", "OFF"), Dark),
     studio_X_on_air_studio_Y_takeover_request |->
        LampStateTarget(Dark, StudioLampStatus("ON", "BLINK", "OFF"),
                        StudioLampStatus("OFF", "ON", "OFF"), Dark),
     noop |-> LampStateTarget(Dark, Dark, Dark, Dark)]

\* no lamp_state attribute has been assigned yet
NoLamps ==
    [automat |-> StudioLampStatus("unset", "unset", "unset"),
     studios |-> [s \in Studios |-> StudioLampStatus("unset", "unset", "unset")]]

(* ------------------------- selector controller ------------------------- *)
\* main.py: device.define_selector(1, 8)
position_count == 8

\* a rounding that drops the fraction
round_toward_zero(a, b) == a \div b

\* Python's round(a / b) for a >= 0 and b > 0: to the nearest, a half to even
round(a, b) ==
    IF 2 * (a % b) < b THEN a \div b
    ELSE IF 2 * (a % b) > b THEN (a \div b) + 1
    ELSE IF (a \div b) % 2 = 0 THEN a \div b
    ELSE (a \div b) + 1

\* set_position: the raw value of a position
raw_of_position(p) == round((p - 1) * 65535, position_count - 1)

\* get_position: the position of a raw value
get_position(raw) == round(raw * (position_count - 1) + 65535, 65535)

\* int(round((selector - 1) / (selector_count - 1) * 65535)): the raw value
\* set_position computes for a position of a selector with selector_count
\* positions
get_value_by_selector_number(selector, selector_count) ==
    round((selector - 1) * 65535, selector_count - 1)

\* int(round(value / 65535 * (selector_count - 1) + 1)): the position
\* get_position computes for a raw value
get_selector_number_by_value(value, selector_count) ==
    round(value * (selector_count - 1) + 65535, 65535)

\* no position has been handed to a controller
NoConversion == [sc |-> 0, position |-> 0, raw_value |-> 0, returned |-> 0]

\* the controller after construction (raw_value retrieved from the device,
\* no callback waiting for a reply) and the raw value the device holds
SymNetSelectorController(p) ==
    [raw_value |-> raw_of_position(p),
     callback_queue |-> <<>>,
     device |-> raw_of_position(p)]

\* a controller that never notifies its observers
observers_not_notified(c, value) == FALSE

\* a controller that notifies its observers of every value it is given
observers_always_notified(c, value) == TRUE

\* _set_raw_value: the observers are notified when the value changes
value_changes(c, value) == c.raw_value # value

\* set_position: the raw value is stored, `CS <cn> <cv>` is written and a
\* callback waits for the reply on behalf of the caller
set_position(c, p, caller) ==
    [c EXCEPT !.raw_value = raw_of_position(p),
              !.callback_queue = Append(@, [caller |-> caller, cv |-> raw_of_position(p)])]

(* ----------------------------- state file ------------------------------ *)
\* BaseStudio.name of a studio; None in the file is the empty tuple
studio_name(s) == <<"Studio", s>>
null == <<>>

\* a name no studio carries
Unknown == <<"Studio", 0>>

\* Studio.names: the studio registered under a name
known(n) == \E s \in Studios : studio_name(s) = n
names(n) == CHOOSE s \in Studios : studio_name(s) = n

\* Dispatcher._SaveState written as JSON; a file can also be missing
\* (IOError, errno 2) or hold no JSON (JSONDecodeError)
SaveState(kind, sx, sy, st) == [kind |-> kind, x |-> sx, y |-> sy, state |-> st]
NoFile == SaveState("missing", null, null, "noop")

(* ---------------------------- calc_next_hour -------------------------- *)
\* a datetime.datetime with its tzinfo's offset from UTC in minutes; days are
\* counted from an arbitrary first day
datetime(day, hour, minute, second, microsecond, utcoffset) ==
    [day |-> day, hour |-> hour, minute |-> minute, second |-> second,
     microsecond |-> microsecond, utcoffset |-> utcoffset]

\* no datetime
NoTime == datetime(0, 0, 0, 0, 0, 0)

\* the whole seconds of the instant t on the UTC time line
utc_seconds(t) == ((t.day * 24 + t.hour) * 60 + t.minute - t.utcoffset) * 60 + t.second

\* the UTC datetime of a number of seconds and a number of microseconds
utc_datetime(s, us) ==
    datetime(s \div 86400, (s \div 3600) % 24, (s \div 60) % 60, s % 60, us, 0)

\* now.astimezone(tz=tz.UTC)
astimezone_utc(t) == utc_datetime(utc_seconds(t), t.microsecond)

\* t + relativedelta(hours=1, minute=0, second=0, microsecond=0): the
\* absolute fields replace t's, then the relative hour is added
plus_delta(t) ==
    utc_datetime(utc_seconds([t EXCEPT !.minute = 0, !.second = 0, !.microsecond = 0]) + 3600, 0)

\* a - b > datetime.timedelta(seconds=s)
exceeds(a, b, s) ==
    \/ utc_seconds(a) - utc_seconds(b) > s
    \/ utc_seconds(a) - utc_seconds(b) = s /\ a.microsecond > b.microsecond

\* `if next_hour - now > timedelta(hours=1): next_hour -= timedelta(hours=1)`
not_beyond_an_hour(n, t) ==
    IF exceeds(n, t, 3600) THEN utc_datetime(utc_seconds(n) - 3600, n.microsecond) ELSE n

\* utils.calc_next_hour(now)
calc_next_hour(t) == not_beyond_an_hour(plus_delta(astimezone_utc(t)), astimezone_utc(t))

(* ------------------------------- state --------------------------------- *)
VARIABLES
    state,                      \* Dispatcher._machine.state
    x,                          \* Dispatcher._x
    y,                          \* Dispatcher._y
    on_air_selector_value,      \* Dispatcher._on_air_selector_value
    next_hour_timer,            \* Dispatcher._next_hour_timer
    immediate_state_timer,      \* Dispatcher._immediate_state_timer
    immediate_release_timer,    \* Dispatcher._immediate_release_timer
    tasks,                      \* the timer tasks made by base.loop.create_task
    ready,                      \* the callbacks the event loop will run, in order
    queue,                      \* Dispatcher._dispatcher_button_event_queue
    putters,                    \* producers waiting in queue.put
    consumer,                   \* where _process_studio_button_events stands
    set_position_arg,           \* argument of the latest set_position call
    critical,                   \* the latest _audit_state logged a critical line
    raised,                     \* an exception other than MachineError escaped a trigger
    lamp_state,                 \* the lamp_state attribute of the automat and of each studio
    observed,                   \* the hooks of the latest transition, and what its observers saw
    last,                       \* the latest call of machine.trigger
    symnet,                     \* the selector controller and the device behind it
    assure_loop,                \* where _assure_current_state_loop stands
    file,                       \* the content of state.json
    phase,                      \* the process runs, has ended after _cleanup, or runs anew after load()
    now,                        \* the instant calc_next_hour is called with
    next_hour,                  \* what calc_next_hour returned for it
    conversion                  \* a position handed to a selector controller, and what get_position returned for it

vars == <<state, x, y, on_air_selector_value, next_hour_timer,
          immediate_state_timer, immediate_release_timer, tasks, ready,
          queue, putters, consumer, set_position_arg, critical, raised,
          lamp_state, observed, last, symnet, assure_loop, file, phase,
          now, next_hour, conversion>>

\* the clock, which the dispatcher's steps do not read in this model
Clock == <<now, next_hour>>

\* data_types.ButtonEvent
ButtonEvent(s, b) == [studio |-> s, button |-> b]
NoEvent == [studio |-> None, button |-> "none"]

\* one callback of the ready queue: the step of a timer task (id), the
\* consumer's wake-up, a producer's wake-up (ev), or a posted
\* _set_current_state task (posted: the on-air value when it was posted)
Callback(type, id, ev, posted) == [type |-> type, id |-> id, ev |-> ev, posted |-> posted]

\* a timer task: the coroutine it runs, where it stands, whether cancel() was
\* called on it, and (hour timer) which sleep of the loop it is in
Task(kind, st, must_cancel, sleep) ==
    [kind |-> kind, st |-> st, must_cancel |-> must_cancel, sleep |-> sleep]
NoTask == Task("none", "done", FALSE, "none")

\* the observers added to Dispatcher.machine_observers
Observers == {"dispatcher_observer"}

\* no transition has run
NoObserved == [hooks |-> <<>>, calls |-> [o \in Observers |-> <<>>]]

\* the dispatcher's fields as one value, threaded through the hooks
Self ==
    [state |-> state, x |-> x, y |-> y,
     on_air_selector_value |-> on_air_selector_value,
     next_hour_timer |-> next_hour_timer,
     immediate_state_timer |-> immediate_state_timer,
     immediate_release_timer |-> immediate_release_timer,
     tasks |-> tasks, ready |-> ready, current |-> None,
     critical |-> critical, raised |-> raised, lamp_state |-> lamp_state,
     observed |-> observed]

(* ------------------------------ asyncio -------------------------------- *)
\* asyncio.Task.done()
done(d, id) == d.tasks[id].st = "done"

\* ids of tasks that have finished and that no slot refers to
FreeIds(d) ==
    {id \in TaskIds : /\ d.tasks[id].st = "done"
                      /\ id \notin {d.next_hour_timer, d.immediate_state_timer,
                                    d.immediate_release_timer}}

\* base.loop.create_task(coro): the task's first step is queued
create_task(d, kind) ==
    LET id == CHOOSE i \in FreeIds(d) : \A j \in FreeIds(d) : i <= j
    IN [d EXCEPT !.tasks[id] = Task(kind, "new", FALSE, "none"),
                 !.ready = Append(@, Callback("timer", id, NoEvent, 0))]

\* the id create_task gives the next task
NextId(d) == CHOOSE i \in FreeIds(d) : \A j \in FreeIds(d) : i <= j

\* cancel() that has no effect on a task whose sleep is already over
cancel_sleeping_only(d, id) ==
    IF d.tasks[id].st = "sleeping" /\ id # d.current
    THEN [d EXCEPT !.tasks[id].st = "cancelled",
                   !.tasks[id].must_cancel = TRUE,
                   !.ready = Append(@, Callback("timer", id, NoEvent, 0))]
    ELSE d

\* asyncio.Task.cancel(): a sleeping task is woken with CancelledError
\* ("cancelled": its step is queued, its sleep will never run out); a task
\* whose step is already queued, or that is running, gets the error at its
\* next step or await
cancel(d, id) ==
    IF d.tasks[id].st = "done" THEN d
    ELSE IF d.tasks[id].st = "sleeping" /\ id # d.current
         THEN [d EXCEPT !.tasks[id].st = "cancelled",
                        !.tasks[id].must_cancel = TRUE,
                        !.ready = Append(@, Callback("timer", id, NoEvent, 0))]
         ELSE [d EXCEPT !.tasks[id].must_cancel = TRUE]

(* ------------------------------- timers -------------------------------- *)
_start_next_hour_timer(d) ==
    IF d.next_hour_timer # None /\ ~done(d, d.next_hour_timer)
    THEN d
    ELSE [create_task(d, "next_hour") EXCEPT !.next_hour_timer = NextId(d)]

_stop_next_hour_timer(d) ==
    IF d.next_hour_timer # None
    THEN [cancel(d, d.next_hour_timer) EXCEPT !.next_hour_timer = None]
    ELSE d

_start_immediate_state_timer(d) ==
    IF d.immediate_state_timer # None /\ ~done(d, d.immediate_state_timer)
    THEN d
    ELSE [create_task(d, "immediate_state") EXCEPT !.immediate_state_timer = NextId(d)]

_stop_immediate_state_timer(d) ==
    IF d.immediate_state_timer # None
    THEN [cancel(d, d.immediate_state_timer) EXCEPT !.immediate_state_timer = None]
    ELSE d

_start_immediate_release_timer(d) ==
    IF d.immediate_release_timer # None /\ done(d, d.immediate_release_timer)
    THEN d
    ELSE [create_task(d, "immediate_release") EXCEPT !.immediate_release_timer = NextId(d)]

\* a stop of the release timer that forgets the task without cancelling it
_stop_immediate_release_timer_forgets(d) ==
    [d EXCEPT !.immediate_release_timer = None]

_stop_immediate_release_timer(d) ==
    IF d.immediate_release_timer # None
    THEN [cancel(d, d.immediate_release_timer) EXCEPT !.immediate_release_timer = None]
    ELSE d

(* ---------------------------- machine hooks ---------------------------- *)
\* create_task(self._set_current_state())
post_set_current_state(d) ==
    [d EXCEPT !.ready = Append(@, Callback("set_state", None, NoEvent, d.on_air_selector_value))]

_prepare_y_to_x(d) == [d EXCEPT !.x = d.y, !.y = None]

_change_to_automat(d) ==
    post_set_current_state([d EXCEPT !.on_air_selector_value = automat_selector_value])

\* _change_to_studio without the assignment of line 242
_change_to_studio_stale(d) == post_set_current_state(d)

\* self._studios_to_selector_value[self._x] raises KeyError when _x is None
_change_to_studio(d) ==
    IF d.x \in Studios
    THEN post_set_current_state(
            [d EXCEPT !.on_air_selector_value = studios_to_selector_value[d.x]])
    ELSE [d EXCEPT !.raised = TRUE]

\* _start_next_hour_timer, _start_immediate_state_timer or
\* _start_immediate_release_timer, by the timer's name
start_timer(d, t) ==
    IF t = "next_hour" THEN _start_next_hour_timer(d)
    ELSE IF t = "immediate_state" THEN _start_immediate_state_timer(d)
    ELSE _start_immediate_release_timer(d)

\* _stop_next_hour_timer, _stop_immediate_state_timer or
\* _stop_immediate_release_timer, by the timer's name
stop_timer(d, t) ==
    IF t = "next_hour" THEN _stop_next_hour_timer(d)
    ELSE IF t = "immediate_state" THEN _stop_immediate_state_timer(d)
    ELSE _stop_immediate_release_timer(d)

\* a state change that stops no timer
stop_if_absent_never(d, t, dest) == d

\* `if '<t>' not in destination_state: self._stop_<t>_timer()`
stop_if_absent(d, t, dest) == IF In(t, dest) THEN d ELSE stop_timer(d, t)

\* `if '<t>' in destination_state: self._start_<t>_timer()`
start_if_present(d, t, dest) == IF In(t, dest) THEN start_timer(d, t) ELSE d

\* the binding that takes the studio of a Y trigger for X
set_studio_y_as_x(d, name, ev) ==
    IF ev # NoEvent /\ (In("X", name) \/ In("Y", name))
    THEN [d EXCEPT !.x = ev.studio]
    ELSE d

\* the button event's studio is bound by the letter in the trigger's name
set_studio(d, name, ev) ==
    IF ev # NoEvent
    THEN IF In("X", name) THEN [d EXCEPT !.x = ev.studio]
         ELSE IF In("Y", name) THEN [d EXCEPT !.y = ev.studio]
         ELSE d
    ELSE d

\* _before_state_change that binds every pressing studio to X
_before_state_change_bind_x(d, name, ev, dest) ==
    stop_if_absent(
        stop_if_absent(
            stop_if_absent(IF ev # NoEvent THEN [d EXCEPT !.x = ev.studio] ELSE d,
                           "next_hour", dest),
            "immediate_state", dest),
        "immediate_release", dest)

\* _before_state_change whose third test repeats the second timer's name
_before_state_change_copied_test(d, name, ev, dest) ==
    LET d3 == stop_if_absent(
                  stop_if_absent(set_studio(d, name, ev), "next_hour", dest),
                  "immediate_state", dest)
    IN IF In("immediate_state", dest) THEN d3 ELSE stop_timer(d3, "immediate_release")

\* the studio is bound, then the three tests run in the order of the code
_before_state_change(d, name, ev, dest) ==
    stop_if_absent(
        stop_if_absent(
            stop_if_absent(set_studio(d, name, ev), "next_hour", dest),
            "immediate_state", dest),
        "immediate_release", dest)

\* the loop over ['X', 'Y'] that clears the slots the destination lacks
clear_studios(d, dest) ==
    [d EXCEPT !.x = IF In("X", dest) THEN @ ELSE None,
              !.y = IF In("Y", dest) THEN @ ELSE None]

\* _after_state_change whose loop clears X only
_after_state_change_keep_y(d, dest) ==
    start_if_present(
        start_if_present(
            start_if_present([d EXCEPT !.x = IF In("X", dest) THEN @ ELSE None],
                             "next_hour", dest),
            "immediate_state", dest),
        "immediate_release", dest)

\* the slots are cleared, then the three tests run in the order of the code
_after_state_change(d, dest) ==
    start_if_present(
        start_if_present(
            start_if_present(clear_studios(d, dest), "next_hour", dest),
            "immediate_state", dest),
        "immediate_release", dest)

_audit_state(d) ==
    [d EXCEPT !.critical =
        \/ In("X", d.state) /\ d.x = None
        \/ ~In("X", d.state) /\ d.x # None
        \/ In("Y", d.state) /\ d.y = None
        \/ ~In("Y", d.state) /\ d.y # None]

\* _assure_lamp_state without the branch for the studio bound to Y
_assure_lamp_state_without_y(d) ==
    [d EXCEPT !.lamp_state =
        [automat |-> lamp_state_target[d.state].automat,
         studios |-> [s \in Studios |->
                         IF s = d.x THEN lamp_state_target[d.state].x
                         ELSE lamp_state_target[d.state].other]]]

\* _assure_lamp_state: the target of the current state is assigned to the
\* lamp_state attribute of the automat and, by role, of every studio
_assure_lamp_state(d) ==
    [d EXCEPT !.lamp_state =
        [automat |-> lamp_state_target[d.state].automat,
         studios |-> [s \in Studios |->
                         IF s = d.x THEN lamp_state_target[d.state].x
                         ELSE IF s = d.y THEN lamp_state_target[d.state].y
                         ELSE lamp_state_target[d.state].other]]]

\* the callback `hook` of the machine has run
ran(d, hook) == [d EXCEPT !.observed.hooks = Append(@, hook)]

\* what an observer called with (dispatcher, event) can read from them
Seen(d) ==
    [state |-> d.state, x |-> d.x, y |-> d.y,
     on_air_selector_value |-> d.on_air_selector_value,
     lamp_state |-> d.lamp_state, hooks |-> d.observed.hooks]

\* _notify_machine_observers: `observer(self, event)` for every member of
\* the set of observers
_notify_machine_observers(d) ==
    [d EXCEPT !.observed.calls = [o \in Observers |-> Append(@[o], Seen(d))],
              !.observed.hooks = Append(@, "_notify_machine_observers")]

\* finalize_event with the observers called before the lamps are set
finalize_event_observers_first(d) ==
    ran(_assure_lamp_state(
            _notify_machine_observers(ran(_audit_state(d), "_audit_state"))),
        "_assure_lamp_state")

\* finalize_event: _audit_state, _assure_lamp_state, _notify_machine_observers
finalize_event(d) ==
    _notify_machine_observers(
        ran(_assure_lamp_state(ran(_audit_state(d), "_audit_state")),
            "_assure_lamp_state"))

(* ------------------------------ machine -------------------------------- *)
\* enter with _change_to_studio also added to the state that only waits for
\* the next hour
enter_early(d, dest) ==
    IF dest = "automat_on_air" THEN _change_to_automat(d)
    ELSE IF dest \in {"studio_X_on_air", "from_automat_on_air_change_to_studio_X_on_next_hour"}
         THEN _change_to_studio(d)
    ELSE d

\* State.enter: the callbacks Dispatcher.__init__ adds to two states
enter(d, dest) ==
    IF dest = "automat_on_air" THEN _change_to_automat(d)
    ELSE IF dest = "studio_X_on_air" THEN _change_to_studio(d)
    ELSE d

\* the row's own `before` callbacks: _prepare_y_to_x on a flagged row
before(d, row) == IF row.y_to_x THEN _prepare_y_to_x(d) ELSE d

\* the destination's enter callbacks run while the machine stays in the source
set_state_source_kept(d, dest) == enter(d, dest)

\* the machine's state is set and the destination's enter callbacks run
set_state(d, dest) == enter([d EXCEPT !.state = dest], dest)

\* a transition whose after hook is left for a later step
after_state_change_deferred(d, dest) == d

\* after_state_change runs unless a callback before it raised
after_state_change(d, dest) ==
    IF d.raised THEN d ELSE ran(_after_state_change(d, dest), "after_state_change")

\* Event._process starts with no callback run and no observer called
prepare(d) == [d EXCEPT !.observed = NoObserved]

\* execute with the row's swap run after the destination was entered
execute_swap_after_enter(d, row, name, ev) ==
    finalize_event(
        after_state_change(
            before(set_state(_before_state_change(d, name, ev, row.dest), row.dest), row),
            row.dest))

\* Transition.execute with the callbacks given to Machine(...): the machine's
\* before_state_change, the row's own before, the state change with the
\* destination's enter callbacks, after_state_change, and finalize_event
\* (which also runs when a callback raised)
execute(d, row, name, ev) ==
    finalize_event(
        after_state_change(
            ran(set_state(
                    ran(before(_before_state_change(prepare(d), name, ev, row.dest), row),
                        "before_state_change"),
                    row.dest),
                "enter"),
            row.dest))

\* the rows of the machine for a trigger in a state, by position in the table
Rows(st, name) ==
    {i \in 1 .. Len(load_states_transitions) :
        /\ load_states_transitions[i].trigger = name
        /\ load_states_transitions[i].source = st}

\* a trigger that binds the pressing studio before it looks for a row
trigger_bind_first(d, name, ev) ==
    LET rows == Rows(d.state, name)
    IN IF rows = {} THEN set_studio(d, name, ev)
       ELSE execute(d, load_states_transitions[CHOOSE k \in rows : \A j \in rows : k <= j],
                    name, ev)

\* a machine whose rows to noop start in every state: a button trigger
\* without a row of the table takes the machine to noop
trigger_noop_from_any(d, name, ev) ==
    LET rows == Rows(d.state, name)
    IN IF rows = {}
       THEN IF ev = NoEvent THEN d
            ELSE execute(d, [trigger |-> name, source |-> d.state, dest |-> "noop",
                             y_to_x |-> FALSE], name, ev)
       ELSE execute(d, load_states_transitions[CHOOSE k \in rows : \A j \in rows : k <= j],
                    name, ev)

\* Machine.trigger(name, button_event=ev) with ignore_invalid_triggers=True:
\* a trigger without a row from the current state is dropped
trigger(d, name, ev) ==
    LET rows == Rows(d.state, name)
    IN IF rows = {} THEN d
       ELSE execute(d, load_states_transitions[CHOOSE k \in rows : \A j \in rows : k <= j],
                    name, ev)

(* --------------------------- timer coroutines -------------------------- *)
\* the release timer's coroutine copied from the state timer's, trigger and all
TimeoutTrigger_copied(kind) ==
    IF kind = "next_hour" THEN "next_hour" ELSE "immediate_state_timeout"

\* the trigger a timer coroutine fires
TimeoutTrigger(kind) ==
    IF kind = "next_hour" THEN "next_hour"
    ELSE IF kind = "immediate_state" THEN "immediate_state_timeout"
    ELSE "immediate_release_timeout"

\* the `finally` clause of a timer coroutine, and the end of its task
finally(d, id) ==
    LET kind == d.tasks[id].kind
        d1 == IF kind = "next_hour" THEN [d EXCEPT !.next_hour_timer = None]
              ELSE IF kind = "immediate_state" THEN [d EXCEPT !.immediate_state_timer = None]
              ELSE [d EXCEPT !.immediate_release_timer = None]
    IN [d1 EXCEPT !.tasks[id] = NoTask, !.current = None]

\* __hour_timer calls _assure_lamp_state after its trigger; the two other
\* coroutines do not
lamps_after(d, id) ==
    IF d.tasks[id].kind = "next_hour" /\ ~d.raised THEN _assure_lamp_state(d) ELSE d

\* the coroutine fires its trigger (a MachineError is caught), then leaves
\* through `finally`
fire(d, id) ==
    finally(lamps_after(trigger([d EXCEPT !.current = id],
                                TimeoutTrigger(d.tasks[id].kind), NoEvent), id), id)

\* the coroutine awaits asyncio.sleep
sleep(d, id, dur) ==
    [d EXCEPT !.tasks[id].st = "sleeping", !.tasks[id].sleep = dur]

\* __hour_timer from the computation of the remaining duration dur on:
\* "far" is more than 2 s, "near" is in (0.3 s, 2 s], "now" is at most 0.3 s
hour_loop(d, id, dur) ==
    IF dur = "now" THEN fire(d, id) ELSE sleep(d, id, dur)

\* one step of a timer task: from its creation to its first await, or from
\* the end of a sleep to the next await or to the end
timer_step(d, id, dur) ==
    LET t == d.tasks[id] IN
    IF t.must_cancel
    THEN IF t.st = "new"
         THEN [d EXCEPT !.tasks[id] = NoTask]      \* the body is never entered
         ELSE finally(d, id)                       \* CancelledError in the sleep
    ELSE IF t.kind = "next_hour" /\ (t.st = "new" \/ t.sleep = "far")
         THEN hour_loop(d, id, dur)
         ELSE IF t.st = "new" THEN sleep(d, id, "timeout")
              ELSE fire(d, id)

(* ------------------------- button-event consumer ----------------------- *)
\* the suffix chosen without the test `self._x == event.studio`
Append_no_x_test(d, ev) ==
    IF d.x = None THEN "X"
    ELSE IF d.y = None \/ d.y = ev.studio THEN "Y"
    ELSE "none"

\* the suffix when every studio other than X counts as the second studio
Append_second_is_anyone(d, ev) ==
    IF d.x = None THEN "X"
    ELSE IF d.x = ev.studio THEN "X"
    ELSE "Y"

\* the suffix when every pressing studio counts as the first studio
Append_everyone_is_x(d, ev) == "X"

\* the suffix _process_studio_button_events appends to the button's name
Append_(d, ev) ==
    IF d.x = None THEN "X"
    ELSE IF d.x = ev.studio THEN "X"
    ELSE IF d.y = None \/ d.y = ev.studio THEN "Y"
    ELSE "none"

TriggerName(button, suffix) ==
    IF suffix = "X"
    THEN (IF button = "takeover" THEN "takeover_X"
          ELSE IF button = "release" THEN "release_X" ELSE "immediate_X")
    ELSE (IF button = "takeover" THEN "takeover_Y"
          ELSE IF button = "release" THEN "release_Y" ELSE "immediate_Y")

\* `if append:` the machine is triggered with the button's name and suffix
trigger_append(d, ev, suffix) ==
    IF suffix # "none" THEN trigger(d, TriggerName(ev.button, suffix), ev) ELSE d

\* the audit and the lamps at the end of the loop body, not reached when the
\* trigger raised
audit_after(d) == IF d.raised THEN d ELSE _assure_lamp_state(_audit_state(d))

\* the body of the loop of _process_studio_button_events for one event
process(d, ev) == audit_after(trigger_append(d, ev, Append_(d, ev)))

(* --------------------------- load and save ----------------------------- *)
\* the automatic transition to_<dest>, which leads to dest from any state
to_(d, dest) ==
    execute(d, [trigger |-> "to", source |-> d.state, dest |-> dest, y_to_x |-> FALSE],
            "to", NoEvent)

\* save that writes the name of X only
save_x_only(d) ==
    SaveState("record",
              IF d.x # None THEN studio_name(d.x) ELSE null,
              null,
              d.state)

\* save: the names of X and Y and the machine's state
save(d) ==
    SaveState("record",
              IF d.x # None THEN studio_name(d.x) ELSE null,
              IF d.y # None THEN studio_name(d.y) ELSE null,
              d.state)

\* `if state.x: self._x = Studio.names[state.x]` and, inside it, the same for
\* y; raised marks the KeyError of a name that is not registered
load_studios(d, f) ==
    IF f.x = null THEN d
    ELSE IF ~known(f.x) THEN [d EXCEPT !.raised = TRUE]
    ELSE IF f.y = null THEN [d EXCEPT !.x = names(f.x)]
    ELSE IF ~known(f.y) THEN [d EXCEPT !.x = names(f.x), !.raised = TRUE]
    ELSE [d EXCEPT !.x = names(f.x), !.y = names(f.y)]

\* "assure that the correct studio is on air"
load_on_air(d, f) ==
    IF d.raised THEN d
    ELSE IF In("automat_on_air", f.state) THEN _change_to_automat(d)
    ELSE IF In("studio_X_on_air", f.state) THEN _change_to_studio(d)
    ELSE d

\* self._machine.trigger('to_' + state.state)
load_trigger(d, f) == IF d.raised THEN d ELSE to_(d, f.state)

\* load: a missing file and a file without JSON are logged; so is a
\* KeyError, wherever it was raised
load(d, f) ==
    IF f.kind # "record" THEN d
    ELSE [load_trigger(load_on_air(load_studios(d, f), f), f) EXCEPT !.raised = FALSE]

\* _cleanup that leaves the release timer running
_cleanup_without_release(d) ==
    _stop_immediate_state_timer(_stop_next_hour_timer(d))

\* _cleanup, up to save()
_cleanup(d) ==
    _stop_immediate_release_timer(_stop_immediate_state_timer(_stop_next_hour_timer(d)))

(* ------------------------------- actions ------------------------------- *)
Assign(d) ==
    /\ state' = d.state
    /\ x' = d.x
    /\ y' = d.y
    /\ on_air_selector_value' = d.on_air_selector_value
    /\ next_hour_timer' = d.next_hour_timer
    /\ immediate_state_timer' = d.immediate_state_timer
    /\ immediate_release_timer' = d.immediate_release_timer
    /\ tasks' = d.tasks
    /\ ready' = d.ready
    /\ critical' = d.critical
    /\ raised' = d.raised
    /\ lamp_state' = d.lamp_state
    /\ observed' = d.observed

Machine == <<state, x, y, on_air_selector_value, next_hour_timer,
             immediate_state_timer, immediate_release_timer, tasks,
             critical, raised, lamp_state, observed, last>>

\* the selector controller's side, which the dispatcher's own steps leave alone
Controller == <<symnet, assure_loop>>

\* the state file and the life of the process, which no step of a running
\* dispatcher changes
Store == <<file, phase>>

NoCall == [trigger |-> "none", source |-> "none", studio |-> None, executed |-> FALSE]

Init ==
    /\ state = "automat_on_air"
    /\ x = None
    /\ y = None
    /\ on_air_selector_value = automat_selector_value
    /\ next_hour_timer = None
    /\ immediate_state_timer = None
    /\ immediate_release_timer = None
    /\ tasks = [id \in TaskIds |-> NoTask]
    /\ ready = <<>>
    /\ queue = <<>>
    /\ putters = <<>>
    /\ consumer = "waiting"
    /\ set_position_arg = 0
    /\ critical = FALSE
    /\ raised = FALSE
    /\ lamp_state = NoLamps
    /\ observed = NoObserved
    /\ last = NoCall
    /\ symnet = SymNetSelectorController(automat_selector_value)
    /\ assure_loop = "sleeping"
    /\ file = NoFile
    /\ phase = "running"
    /\ now = NoTime
    /\ next_hour = NoTime
    /\ conversion = NoConversion

\* asyncio.Queue.put_nowait: the item is stored and the waiting getter woken
put_nowait(ev, rdy) ==
    /\ queue' = Append(queue, ev)
    /\ IF consumer = "waiting"
       THEN /\ consumer' = "woken"
            /\ ready' = Append(rdy, Callback("consumer", None, NoEvent, 0))
       ELSE /\ consumer' = consumer
            /\ ready' = rdy

\* producers that wait in put or have been woken from it
Waiting == Len(putters) + Cardinality({i \in 1 .. Len(ready) : ready[i].type = "putter"})

\* Studio.__button_coroutine / web button_press: a producer runs
\* `await queue.put(event)` and finds room in the queue (maxsize=1)
Press(s, b) ==
    /\ Len(queue) < 1
    /\ put_nowait(ButtonEvent(s, b), ready)
    /\ UNCHANGED <<Machine, Controller, Store, Clock, conversion, putters, set_position_arg>>

\* the producer finds the queue full and waits in put
PressFull(s, b) ==
    /\ Len(queue) >= 1
    /\ Waiting < MaxPutters
    /\ putters' = Append(putters, ButtonEvent(s, b))
    /\ UNCHANGED <<Machine, Controller, Store, Clock, conversion, queue, consumer, ready, set_position_arg>>

\* a woken producer that stores its event without testing the queue again
PutterStep_no_retest ==
    /\ ready # <<>>
    /\ Head(ready).type = "putter"
    /\ put_nowait(Head(ready).ev, Tail(ready))
    /\ UNCHANGED <<Machine, Controller, Store, Clock, conversion, putters, set_position_arg>>

\* a producer woken from put tests the queue again
PutterStep ==
    /\ ready # <<>>
    /\ Head(ready).type = "putter"
    /\ IF Len(queue) >= 1
       THEN /\ putters' = Append(putters, Head(ready).ev)
            /\ ready' = Tail(ready)
            /\ UNCHANGED <<queue, consumer>>
       ELSE /\ put_nowait(Head(ready).ev, Tail(ready))
            /\ UNCHANGED putters
    /\ UNCHANGED <<Machine, Controller, Store, Clock, conversion, set_position_arg>>

\* _process_studio_button_events is woken in queue.get(): it takes the event
\* (get_nowait wakes the first waiting producer), handles it and waits in
\* get() again
ConsumerStep ==
    /\ ready # <<>>
    /\ Head(ready).type = "consumer"
    /\ consumer = "woken"
    /\ queue # <<>>
    /\ FreeIds(Self) # {}
    /\ LET ev == Head(queue)
           rdy == IF putters # <<>>
                  THEN Append(Tail(ready), Callback("putter", None, Head(putters), 0))
                  ELSE Tail(ready)
       IN /\ Assign(process([Self EXCEPT !.ready = rdy], ev))
          /\ last' = [trigger |-> IF Append_(Self, ev) = "none" THEN "none"
                                  ELSE TriggerName(ev.button, Append_(Self, ev)),
                      source |-> state,
                      studio |-> ev.studio,
                      executed |-> /\ Append_(Self, ev) # "none"
                                   /\ Rows(state, TriggerName(ev.button, Append_(Self, ev))) # {}]
          /\ consumer' = IF raised' THEN "dead" ELSE "waiting"
    /\ queue' = Tail(queue)
    /\ putters' = IF putters # <<>> THEN Tail(putters) ELSE putters
    /\ UNCHANGED <<set_position_arg, symnet, assure_loop, file, phase, Clock, conversion>>

\* the timer of a sleeping task runs out: the task is woken
Expire(id) ==
    /\ tasks[id].st = "sleeping"
    /\ tasks' = [tasks EXCEPT ![id].st = "woken"]
    /\ ready' = Append(ready, Callback("timer", id, NoEvent, 0))
    /\ UNCHANGED <<state, x, y, on_air_selector_value, next_hour_timer,
                   immediate_state_timer, immediate_release_timer,
                   queue, putters, consumer, set_position_arg, critical, raised,
                   lamp_state, observed, last, symnet, assure_loop, file, phase, Clock, conversion>>

\* does this step of the task fire the trigger?
Fires(id, dur) ==
    /\ ~tasks[id].must_cancel
    /\ \/ tasks[id].st = "woken" /\ ~(tasks[id].kind = "next_hour" /\ tasks[id].sleep = "far" /\ dur # "now")
       \/ tasks[id].st = "new" /\ tasks[id].kind = "next_hour" /\ dur = "now"

\* the loop runs the next step of a timer task
TimerStep(dur) ==
    /\ ready # <<>>
    /\ Head(ready).type = "timer"
    /\ LET id == Head(ready).id
       IN /\ Assign(timer_step([Self EXCEPT !.ready = Tail(ready)], id, dur))
          /\ last' = IF Fires(id, dur)
                     THEN [trigger |-> TimeoutTrigger(tasks[id].kind),
                           source |-> state,
                           studio |-> None,
                           executed |-> Rows(state, TimeoutTrigger(tasks[id].kind)) # {}]
                     ELSE last
    /\ UNCHANGED <<queue, putters, consumer, set_position_arg, symnet, assure_loop, file, phase, Clock, conversion>>

\* the older revision's _set_current_state, which passes the automat's value
_set_current_state_automat(d) == automat_selector_value

\* _set_current_state: the value it passes to set_position
_set_current_state(d) == d.on_air_selector_value

\* the loop runs a posted _set_current_state: set_position is called with the
\* on-air value of that moment
SetStateStep ==
    /\ ready # <<>>
    /\ Head(ready).type = "set_state"
    /\ set_position_arg' = _set_current_state(Self)
    /\ ready' = Tail(ready)
    /\ UNCHANGED <<Machine, Controller, Store, Clock, conversion, queue, putters, consumer>>

Next ==
    \/ \E s \in Studios, b \in Button : Press(s, b)
    \/ ConsumerStep
    \/ \E id \in TaskIds : Expire(id)
    \/ \E dur \in {"far", "near", "now"} : TimerStep(dur)
    \/ SetStateStep

Spec == Init /\ [][Next]_vars

\* a start method is called on its own, whatever its slot holds
StartCall(t) ==
    /\ FreeIds(Self) # {}
    /\ Assign(start_timer(Self, t))
    /\ UNCHANGED <<queue, putters, consumer, set_position_arg, last, symnet, assure_loop, file, phase, Clock, conversion>>

\* the three start methods called directly on the constructed dispatcher,
\* with the event loop running the tasks they create
NextTimers ==
    \/ \E t \in {"next_hour", "immediate_state", "immediate_release"} : StartCall(t)
    \/ \E id \in TaskIds : Expire(id)
    \/ \E dur \in {"far", "near", "now"} : TimerStep(dur)

SpecTimers == Init /\ [][NextTimers]_vars

\* the same program with producers that wait on a full queue
NextQueue ==
    \/ Next
    \/ \E s \in Studios, b \in Button : PressFull(s, b)
    \/ PutterStep

SpecQueue == Init /\ [][NextQueue]_vars

(* ------------------- the dispatcher and its state file ----------------- *)
\* the names a state file can hold
NameValues == {null, Unknown} \cup {studio_name(s) : s \in Studios}

\* the files load() can find
Files ==
    {NoFile, SaveState("malformed", null, null, "noop")}
    \cup {SaveState("record", sx, sy, st) : sx \in NameValues, sy \in NameValues, st \in States}

\* the cleanup event is set: the timers are stopped, the state is saved and
\* the process ends
Cleanup ==
    /\ phase = "running"
    /\ Assign(_cleanup(Self))
    /\ file' = save(_cleanup(Self))
    /\ phase' = "ended"
    /\ UNCHANGED <<Clock, conversion>>
    /\ UNCHANGED <<queue, putters, consumer, set_position_arg, last, Controller>>

\* a new process constructs a dispatcher and calls load() on it
Restart(f, ph) ==
    /\ Assign(load([Self EXCEPT !.state = "automat_on_air",
                                !.x = None,
                                !.y = None,
                                !.on_air_selector_value = automat_selector_value,
                                !.next_hour_timer = None,
                                !.immediate_state_timer = None,
                                !.immediate_release_timer = None,
                                !.tasks = [id \in TaskIds |-> NoTask],
                                !.ready = <<>>,
                                !.critical = FALSE,
                                !.raised = FALSE,
                                !.lamp_state = NoLamps,
                                !.observed = NoObserved],
                   f))
    /\ queue' = <<>>
    /\ putters' = <<>>
    /\ consumer' = "waiting"
    /\ set_position_arg' = 0
    /\ last' = NoCall
    /\ file' = f
    /\ phase' = ph
    /\ UNCHANGED <<Clock, conversion>>
    /\ UNCHANGED Controller

\* load() of the file the ended process saved
Load == phase = "ended" /\ Restart(file, "reloaded")

\* load() at the program's first start, whatever state.json holds
LoadAtStart(f) == Init /\ Restart(f, "loaded")

NextLoad ==
    \/ phase = "running" /\ Next
    \/ Cleanup
    \/ Load
    \/ \E f \in Files : LoadAtStart(f)
    \/ phase \in {"loaded", "reloaded"} /\ \E id \in TaskIds : Expire(id)
    \/ phase \in {"loaded", "reloaded"} /\ \E dur \in {"far", "near", "now"} : TimerStep(dur)
    \/ phase \in {"loaded", "reloaded"} /\ SetStateStep

SpecLoad == Init /\ [][NextLoad]_vars

(* ------------------------------ shutdown ------------------------------- *)
\* base.stop: cleanup_event.set() wakes the tasks that wait for the event, in
\* the order in which start() created them: the cleanup task of
\* _process_studio_button_events, then _cleanup. loop.stop() ends
\* run_forever, and run_loop goes on running the loop's callbacks until the
\* cleanup tasks are done.
Stop ==
    /\ phase = "running"
    /\ phase' = "stopping"
    /\ UNCHANGED <<Clock, conversion>>
    /\ ready' = ready \o <<Callback("cleanup_task", None, NoEvent, 0),
                           Callback("_cleanup", None, NoEvent, 0)>>
    /\ UNCHANGED <<Machine, Controller, file, queue, putters, consumer, set_position_arg>>

\* cleanup_task of start_cleanup_aware_coroutine: main_task.cancel(). A
\* consumer that waits in get() is woken with CancelledError; one whose
\* wake-up is already queued gets the error when it runs.
CancelStep ==
    /\ ready # <<>>
    /\ Head(ready).type = "cleanup_task"
    /\ consumer' = IF consumer = "dead" THEN "dead" ELSE "cancelled"
    /\ ready' = IF consumer = "waiting"
                THEN Append(Tail(ready), Callback("consumer", None, NoEvent, 0))
                ELSE Tail(ready)
    /\ UNCHANGED <<Machine, Controller, Store, Clock, conversion, queue, putters, set_position_arg>>

\* the cancelled consumer runs: CancelledError is raised at its
\* `await queue.get()`, and the task ends without taking an event
CancelledConsumerStep ==
    /\ ready # <<>>
    /\ Head(ready).type = "consumer"
    /\ consumer = "cancelled"
    /\ consumer' = "dead"
    /\ ready' = Tail(ready)
    /\ UNCHANGED <<Machine, Controller, Store, Clock, conversion, queue, putters, set_position_arg>>

\* _cleanup is woken from cleanup_event.wait(): it stops the three timers
\* and saves
CleanupStep ==
    /\ ready # <<>>
    /\ Head(ready).type = "_cleanup"
    /\ Assign(_cleanup([Self EXCEPT !.ready = Tail(ready)]))
    /\ file' = save(_cleanup(Self))
    /\ phase' = "saved"
    /\ UNCHANGED <<Clock, conversion>>
    /\ UNCHANGED <<queue, putters, consumer, set_position_arg, last, Controller>>

\* the running dispatcher, the shutdown, and what the loop still runs after it
NextShutdown ==
    \/ Next
    \/ Stop
    \/ CancelStep
    \/ CancelledConsumerStep
    \/ CleanupStep

SpecShutdown == Init /\ [][NextShutdown]_vars

(* --------------------------- the hour's clock -------------------------- *)
\* the instants calc_next_hour is called with: around an hour's and a day's
\* boundary, in UTC and in a zone half an hour off
Instants ==
    {datetime(d, h, m, sec, us, off) :
        d \in {1, 2}, h \in {0, 22, 23}, m \in {0, 1, 59}, sec \in {0, 1, 59},
        us \in {0, 1, 999999}, off \in {0, 330}}

\* the clock shows an instant
Tick(t) ==
    /\ now' = t
    /\ next_hour' = NoTime
    /\ UNCHANGED <<Machine, Controller, Store, ready, queue, putters, consumer,
                   set_position_arg, conversion>>

\* __hour_timer: next_hour = calc_next_hour()
CalcNextHour ==
    /\ now # NoTime
    /\ next_hour = NoTime
    /\ next_hour' = calc_next_hour(now)
    /\ now' = now
    /\ UNCHANGED <<Machine, Controller, Store, ready, queue, putters, consumer,
                   set_position_arg, conversion>>

NextHour ==
    \/ \E t \in Instants : Tick(t)
    \/ CalcNextHour

SpecHour == Init /\ [][NextHour]_vars

(* ----------------------- positions and raw values ---------------------- *)
\* the selector counts a controller is built with, and the positions handed
\* to it: every position of a small selector, the first positions of a
\* selector with as many positions as there are raw values, or with more
Counts == (2 .. MaxCount) \cup {65536, 70000}

Positions(n) == IF n <= MaxCount THEN 1 .. n ELSE 1 .. MaxCount

\* SymNetSelectorController(..., selector_count=n).set_position(p), up to
\* the cached raw value
SetPositionOf(n, p) ==
    /\ conversion' = [sc |-> n, position |-> p,
                        raw_value |-> get_value_by_selector_number(p, n),
                        returned |-> 0]
    /\ UNCHANGED <<Machine, Controller, Store, Clock, ready, queue, putters, consumer,
                   set_position_arg>>

\* get_position() of that controller while the cached value is fresh
GetPositionOf ==
    /\ conversion.sc # 0
    /\ conversion.returned = 0
    /\ conversion' = [conversion EXCEPT
                         !.returned = get_selector_number_by_value(conversion.raw_value,
                                                                   conversion.sc)]
    /\ UNCHANGED <<Machine, Controller, Store, Clock, ready, queue, putters, consumer,
                   set_position_arg>>

NextPosition ==
    \/ \E n \in Counts : \E p \in Positions(n) : SetPositionOf(n, p)
    \/ GetPositionOf

SpecPosition == Init /\ [][NextPosition]_vars

(* ----------------- the dispatcher with its controller ------------------ *)
\* the _set_current_state tasks posted and not yet run
posted_set_state == {i \in DOMAIN ready : ready[i].type = "set_state"}

\* _set_current_state as a whole: set_position is called with the on-air
\* value on behalf of caller, and _set_raw_value posts the observer
\* (_set_current_state again) when the raw value changes
call_set_position(rdy, caller) ==
    /\ Len(symnet.callback_queue) < MaxPending
    /\ set_position_arg' = _set_current_state(Self)
    /\ symnet' = set_position(symnet, _set_current_state(Self), caller)
    /\ ready' = IF value_changes(symnet, raw_of_position(_set_current_state(Self)))
                THEN Append(rdy, Callback("set_state", None, NoEvent, on_air_selector_value))
                ELSE rdy

\* the loop runs a posted _set_current_state against the controller
SetPositionStep ==
    /\ ready # <<>>
    /\ Head(ready).type = "set_state"
    /\ call_set_position(Tail(ready), "task")
    /\ UNCHANGED <<state, x, y, on_air_selector_value, next_hour_timer,
                   immediate_state_timer, immediate_release_timer, tasks,
                   queue, putters, consumer, critical, raised, lamp_state,
                   observed, last, assure_loop>>
    /\ UNCHANGED <<Store, Clock, conversion>>

\* _assure_current_state_loop starts, or its sleep of 300 to 600 s ends: it
\* awaits _set_current_state
AssureStep ==
    /\ assure_loop = "sleeping"
    /\ call_set_position(ready, "loop")
    /\ assure_loop' = "awaiting"
    /\ UNCHANGED <<state, x, y, on_air_selector_value, next_hour_timer,
                   immediate_state_timer, immediate_release_timer, tasks,
                   queue, putters, consumer, critical, raised, lamp_state, observed, last>>
    /\ UNCHANGED <<Store, Clock, conversion>>

\* the device answers the oldest waiting callback: with ACK it has taken the
\* value and the caller goes on; with NAK _assure_callback raises, the
\* exception leaves set_position and _set_current_state, and ends the caller
Reply(ack) ==
    /\ symnet.callback_queue # <<>>
    /\ symnet' = [symnet EXCEPT
                     !.callback_queue = Tail(@),
                     !.device = IF ack THEN Head(symnet.callback_queue).cv ELSE @]
    /\ assure_loop' = IF Head(symnet.callback_queue).caller = "loop"
                      THEN (IF ack THEN "sleeping" ELSE "dead")
                      ELSE assure_loop
    /\ UNCHANGED <<state, x, y, on_air_selector_value, next_hour_timer,
                   immediate_state_timer, immediate_release_timer, tasks, ready,
                   queue, putters, consumer, set_position_arg, critical, raised,
                   lamp_state, observed, last>>
    /\ UNCHANGED <<Store, Clock, conversion>>

\* the selector is moved at the device, which pushes its new value:
\* _set_raw_value stores it and posts the observer
External(p) ==
    /\ raw_of_position(p) # symnet.device
    /\ Cardinality(posted_set_state) < MaxPending
    /\ symnet' = [symnet EXCEPT !.device = raw_of_position(p),
                                !.raw_value = raw_of_position(p)]
    /\ ready' = IF value_changes(symnet, raw_of_position(p))
                THEN Append(ready, Callback("set_state", None, NoEvent, on_air_selector_value))
                ELSE ready
    /\ UNCHANGED <<state, x, y, on_air_selector_value, next_hour_timer,
                   immediate_state_timer, immediate_release_timer, tasks,
                   queue, putters, consumer, set_position_arg, critical, raised,
                   lamp_state, observed, last, assure_loop>>
    /\ UNCHANGED <<Store, Clock, conversion>>

NextSelector ==
    \/ \E s \in 1 .. MaxPressing, b \in Button : Press(s, b)
    \/ ConsumerStep
    \/ \E id \in TaskIds : Expire(id)
    \/ \E dur \in {"far", "near", "now"} : TimerStep(dur)
    \/ SetPositionStep
    \/ AssureStep
    \/ \E ack \in BOOLEAN : Reply(ack)
    \/ \E p \in 1 .. MaxExternal : External(p)

SpecSelector == Init /\ [][NextSelector]_vars

\* the callback at the head of the ready queue can run against the controller
HeadRunsSelector ==
    /\ ready # <<>>
    /\ Head(ready).type = "consumer" => (queue # <<>> /\ FreeIds(Self) # {})
    /\ Head(ready).type = "set_state" => Len(symnet.callback_queue) < MaxPending

LoopStepSelector ==
    \/ ConsumerStep
    \/ \E dur \in {"far", "near", "now"} : TimerStep(dur)
    \/ SetPositionStep

\* the sleep of _assure_current_state_loop is over and it can call
AssureRuns ==
    /\ assure_loop = "sleeping"
    /\ Len(symnet.callback_queue) < MaxPending

\* Every sleep ends, the event loop runs every callback of its ready queue,
\* and the device answers every `CS` it was sent, with ACK or with NAK.  The
\* code never holds a call back: the fairness of the calling steps is strong,
\* so that the bound on the waiting callbacks starves none of them.
FairnessSelector ==
    /\ \A id \in TaskIds : WF_vars(Expire(id))
    /\ (<>[](~HeadRunsSelector)) \/ ([]<><<LoopStepSelector>>_vars)
    /\ (<>[](~AssureRuns)) \/ ([]<><<AssureStep>>_vars)
    /\ ([]<>(symnet.callback_queue = <<>>)) \/ ([]<><<\E ack \in BOOLEAN : Reply(ack)>>_vars)

SpecSelectorLive == SpecSelector /\ FairnessSelector

\* The same program over UDP, where a datagram can be lost: every sleep ends
\* and the event loop runs every callback, but nothing makes a reply arrive.
FairnessLossy ==
    /\ \A id \in TaskIds : WF_vars(Expire(id))
    /\ (<>[](~HeadRunsSelector)) \/ ([]<><<LoopStepSelector>>_vars)
    /\ (<>[](~AssureRuns)) \/ ([]<><<AssureStep>>_vars)

SpecSelectorLossy == SpecSelector /\ FairnessLossy

\* the callback at the head of the ready queue can run
HeadRuns ==
    /\ ready # <<>>
    /\ Head(ready).type = "consumer" => (queue # <<>> /\ FreeIds(Self) # {})

\* the event loop runs the callback at the head of its ready queue
LoopStep ==
    \/ ConsumerStep
    \/ \E dur \in {"far", "near", "now"} : TimerStep(dur)
    \/ SetStateStep

\* the hour timer's task is at the head of the ready queue
HourHead ==
    /\ ready # <<>>
    /\ Head(ready).type = "timer"
    /\ tasks[Head(ready).id].kind = "next_hour"

\* a step of the hour timer at which at most 2 s remain to the hour
HourStep == HourHead /\ (TimerStep("near") \/ TimerStep("now"))

\* Every sleep ends; the event loop runs every callback of its ready queue
\* (weak fairness of LoopStep, whose enabling condition is HeadRuns); the
\* hour comes: the remaining duration computed by __hour_timer is again and
\* again at most 2 s (strong fairness of HourStep, enabled when HourHead).
Fairness ==
    /\ \A id \in TaskIds : WF_vars(Expire(id))
    /\ ([]<>(~HeadRuns)) \/ ([]<><<LoopStep>>_vars)
    /\ (<>[](~HourHead)) \/ ([]<><<HourStep>>_vars)

SpecLive == Spec /\ Fairness

TypeOK ==
    /\ state \in States
    /\ x \in Studios \cup {None}
    /\ y \in Studios \cup {None}
    /\ Len(queue) <= 1
    /\ consumer \in {"waiting", "woken"}
    /\ ~raised
    /\ FreeIds(Self) # {}

(* ------------------------------- claims -------------------------------- *)
\* the states in which the automat is on air
AutomatFamily ==
    {"automat_on_air",
     "automat_on_air_immediate_state_X",
     "from_automat_on_air_change_to_studio_X_on_next_hour"}

\* C1: after every step the on-air selector value is the automat's value in
\* the three automat-on-air states and the selector value of the studio
\* bound to X in every other state except noop; no other value occurs.
C1_OnAirMatchesState ==
    IF state \in AutomatFamily
    THEN on_air_selector_value = automat_selector_value
    ELSE state # "noop" =>
            /\ x \in Studios
            /\ on_air_selector_value = studios_to_selector_value[x]

\* a swap at the next hour has put the second studio on air
C1_Witness ==
    /\ state = "studio_X_on_air"
    /\ last.executed
    /\ last.trigger = "next_hour"
    /\ last.source = "from_studio_X_on_air_change_to_studio_Y_on_next_hour"
    /\ x = 2
    /\ on_air_selector_value = studios_to_selector_value[2]

\* C2: after every finalized transition the X slot is bound exactly when the
\* state name contains "X", and the Y slot exactly when it contains "Y"; the
\* audit never logs a critical line.
C2_SlotsMatchStateName ==
    /\ In("X", state) <=> x # None
    /\ In("Y", state) <=> y # None
    /\ ~critical

\* a transition has left a state with Y for one without it
C2_Witness ==
    /\ last.executed
    /\ In("Y", last.source)
    /\ ~In("Y", state)
    /\ In("X", state)
    /\ x # None
    /\ y = None

\* C3: X and Y, when both bound, are different studios, and Y is never bound
\* while X is empty.
C3_RolesDistinct ==
    /\ (x # None /\ y # None) => x # y
    /\ y # None => x # None

\* both roles are bound after a takeover request of a second studio
C3_Witness ==
    /\ last.executed
    /\ last.trigger = "takeover_Y"
    /\ x # None
    /\ y # None
    /\ y = last.studio

\* the consumer handles the press of button b in studio s
ButtonStep(s, b) == ConsumerStep /\ Head(queue) = ButtonEvent(s, b)

\* a timer task of the given kind fires its trigger
TimerFires(kind) ==
    \E dur \in {"far", "near", "now"} :
        /\ TimerStep(dur)
        /\ Fires(Head(ready).id, dur)
        /\ tasks[Head(ready).id].kind = kind

\* C4: the on-air selector value changes only in an executed transition
\* triggered by next_hour, by takeover_X from automat_on_air_immediate_state_X,
\* by takeover_Y from studio_X_on_air_immediate_release or by
\* immediate_release_timeout; a takeover or release press in any other state
\* leaves it unchanged.
C4_OnAirChangesOnlyAtSwitch ==
    [][/\ on_air_selector_value' # on_air_selector_value =>
            /\ last'.executed
            /\ last'.source = state
            /\ \/ last'.trigger = "next_hour"
               \/ last'.trigger = "takeover_X" /\ state = "automat_on_air_immediate_state_X"
               \/ last'.trigger = "takeover_Y" /\ state = "studio_X_on_air_immediate_release"
               \/ last'.trigger = "immediate_release_timeout"
       /\ \A s \in Studios, b \in {"takeover", "release"} :
            (/\ ButtonStep(s, b)
             /\ state \notin {"automat_on_air_immediate_state_X", "studio_X_on_air_immediate_release"})
            => on_air_selector_value' = on_air_selector_value]_vars

\* a takeover inside the immediate state has switched the studio on air
C4_Witness ==
    /\ last.executed
    /\ last.trigger = "takeover_X"
    /\ last.source = "automat_on_air_immediate_state_X"
    /\ state = "studio_X_on_air"
    /\ on_air_selector_value = studios_to_selector_value[last.studio]

\* C5: for every studio A, A's takeover press in automat_on_air leads to
\* from_automat_on_air_change_to_studio_X_on_next_hour with X = A, Y empty and
\* the automat still on air; when next_hour fires in that state the machine
\* is in studio_X_on_air with the same X and X's selector value on air, a
\* set_position task is posted, and it calls set_position with that value.
C5_TakeoverAtNextHour ==
    [][/\ \A a \in Studios :
            (ButtonStep(a, "takeover") /\ state = "automat_on_air") =>
                /\ state' = "from_automat_on_air_change_to_studio_X_on_next_hour"
                /\ x' = a
                /\ y' = None
                /\ on_air_selector_value' = automat_selector_value
       /\ (TimerFires("next_hour") /\ state = "from_automat_on_air_change_to_studio_X_on_next_hour") =>
                /\ state' = "studio_X_on_air"
                /\ x \in Studios
                /\ x' = x
                /\ on_air_selector_value' = studios_to_selector_value[x]
                /\ ready' # <<>>
                /\ ready'[Len(ready')] =
                      Callback("set_state", None, NoEvent, studios_to_selector_value[x])
       /\ SetStateStep => set_position_arg' = Head(ready).posted]_vars

\* the hour has come after a takeover and set_position was called for X
C5_Witness ==
    /\ last.executed
    /\ last.trigger = "next_hour"
    /\ last.source = "from_automat_on_air_change_to_studio_X_on_next_hour"
    /\ state = "studio_X_on_air"
    /\ x = 2
    /\ on_air_selector_value = studios_to_selector_value[2]
    /\ set_position_arg = studios_to_selector_value[2]

\* C6: both swap rows (takeover_Y from studio_X_on_air_immediate_release and
\* next_hour from from_studio_X_on_air_change_to_studio_Y_on_next_hour) end in
\* studio_X_on_air with X the studio that was, or was just bound as, Y, with
\* Y empty and with that studio's selector value on air.
C6_SwapBeforeEnter ==
    [][/\ \A b \in Studios :
            (/\ ButtonStep(b, "takeover")
             /\ state = "studio_X_on_air_immediate_release"
             /\ b # x) =>
                /\ state' = "studio_X_on_air"
                /\ x' = b
                /\ y' = None
                /\ on_air_selector_value' = studios_to_selector_value[b]
       /\ (/\ TimerFires("next_hour")
           /\ state = "from_studio_X_on_air_change_to_studio_Y_on_next_hour") =>
                /\ state' = "studio_X_on_air"
                /\ y \in Studios
                /\ x' = y
                /\ y' = None
                /\ on_air_selector_value' = studios_to_selector_value[y]]_vars

\* a second studio has taken over during the immediate release
C6_Witness ==
    /\ last.executed
    /\ last.trigger = "takeover_Y"
    /\ last.source = "studio_X_on_air_immediate_release"
    /\ state = "studio_X_on_air"
    /\ x = last.studio
    /\ y = None
    /\ on_air_selector_value = studios_to_selector_value[last.studio]

\* C7: from studio_X_on_air with X = A, the takeover press of another studio
\* B leads to studio_X_on_air_studio_Y_takeover_request with X = A, Y = B and
\* the on-air value unchanged; A's release press then leads to
\* from_studio_X_on_air_change_to_studio_Y_on_next_hour with the same X and
\* Y, and A's selector value stays on air until next_hour fires.
C7_TakeoverRequestThenRelease ==
    [][/\ \A b \in Studios :
            (ButtonStep(b, "takeover") /\ state = "studio_X_on_air" /\ b # x) =>
                /\ state' = "studio_X_on_air_studio_Y_takeover_request"
                /\ x' = x
                /\ y' = b
                /\ on_air_selector_value' = on_air_selector_value
       /\ \A a \in Studios :
            (/\ ButtonStep(a, "release")
             /\ state = "studio_X_on_air_studio_Y_takeover_request"
             /\ a = x) =>
                /\ state' = "from_studio_X_on_air_change_to_studio_Y_on_next_hour"
                /\ x' = x
                /\ y' = y
                /\ on_air_selector_value' = on_air_selector_value
                /\ on_air_selector_value' = studios_to_selector_value[x]
       /\ (/\ state = "from_studio_X_on_air_change_to_studio_Y_on_next_hour"
           /\ ~TimerFires("next_hour")) =>
                /\ on_air_selector_value' = on_air_selector_value
                /\ on_air_selector_value = studios_to_selector_value[x]]_vars

\* X has released after the takeover request of Y
C7_Witness ==
    /\ last.executed
    /\ last.trigger = "release_X"
    /\ last.source = "studio_X_on_air_studio_Y_takeover_request"
    /\ state = "from_studio_X_on_air_change_to_studio_Y_on_next_hour"
    /\ x = last.studio
    /\ y \in Studios
    /\ on_air_selector_value = studios_to_selector_value[x]

\* the timer names
Timers == {"next_hour", "immediate_state", "immediate_release"}

\* the task slot of a timer
Slot(d, t) ==
    IF t = "next_hour" THEN d.next_hour_timer
    ELSE IF t = "immediate_state" THEN d.immediate_state_timer
    ELSE d.immediate_release_timer

\* the slot holds a task that will still fire
Pending(d, t) ==
    /\ Slot(d, t) # None
    /\ d.tasks[Slot(d, t)].kind = t
    /\ d.tasks[Slot(d, t)].st # "done"
    /\ ~d.tasks[Slot(d, t)].must_cancel

C8_Inv ==
    /\ \A t \in Timers :
          /\ Pending(Self, t) <=> In(t, state)
          /\ Slot(Self, t) # None => Pending(Self, t)
    /\ \A id \in TaskIds :
          (tasks[id].st # "done" /\ ~tasks[id].must_cancel) => Slot(Self, tasks[id].kind) = id

C8_Act ==
    state' # state =>
        \A t \in Timers :
            /\ (In(t, state) /\ ~In(t, state')) =>
                  /\ Slot(Self, t) # None
                  /\ Slot(Self, t)' = None
                  /\ \/ tasks'[Slot(Self, t)].st = "done"
                     \/ tasks'[Slot(Self, t)].must_cancel
            /\ (~In(t, state) /\ In(t, state')) =>
                  /\ Slot(Self, t) = None
                  /\ Slot(Self, t)' # None
                  /\ tasks'[Slot(Self, t)'] = Task(t, "new", FALSE, "none")

\* C8: after every finalized transition a pending timer task exists for a
\* timer exactly when the state name contains the timer's name; a transition
\* cancels every timer of the source that the destination lacks and starts
\* every timer of the destination that the source lacks.
C8_TimersFollowStateName == []C8_Inv /\ [][C8_Act]_vars

\* the release inside the immediate state has replaced one timer by the other
C8_Witness ==
    /\ last.executed
    /\ last.trigger = "release_X"
    /\ state = "studio_X_on_air_immediate_release"
    /\ Pending(Self, "immediate_release")
    /\ immediate_state_timer = None
    /\ \E id \in TaskIds : tasks[id].kind = "immediate_state" /\ tasks[id].must_cancel

\* C9: for each of the three timers, a start while the task in the slot is
\* still running changes nothing: no task is created and the slot keeps the
\* running task (whose deadline was fixed when it was created); a task is
\* created only when the slot is empty or its task has finished.
C9_StartWhileRunningIsNoOp ==
    [][\A t \in Timers :
          StartCall(t) =>
             /\ (Slot(Self, t) # None /\ ~done(Self, Slot(Self, t))) =>
                   UNCHANGED <<next_hour_timer, immediate_state_timer,
                               immediate_release_timer, tasks, ready>>
             /\ tasks' # tasks =>
                   (Slot(Self, t) = None \/ done(Self, Slot(Self, t)))]_vars

C10_Inv ==
    \A id \in TaskIds :
        tasks[id].must_cancel => \A t \in Timers : Slot(Self, t) # id

C10_Act ==
    /\ \A t \in Timers :
          (Slot(Self, t) # None /\ Slot(Self, t)' # Slot(Self, t)) =>
              /\ Slot(Self, t)' = None
              /\ \/ tasks'[Slot(Self, t)].st = "done"
                 \/ tasks'[Slot(Self, t)].must_cancel
    /\ \A t \in Timers : TimerFires(t) => Slot(Self, t) = Head(ready).id
    /\ \A dur \in {"far", "near", "now"}, id \in TaskIds, t \in Timers :
          (/\ TimerStep(dur)
           /\ Head(ready).id = id
           /\ tasks[id].kind = t
           /\ Slot(Self, t) # id) =>
              /\ Slot(Self, t)' = Slot(Self, t)
              /\ state' = state

\* C10: a stopped timer has an empty slot and never fires its trigger
\* afterwards, also when its sleep had already run out when it was stopped;
\* the step in which a task finishes or takes its cancellation never changes
\* a slot that holds another task.
C10_StoppedTimerNeverFires == []C10_Inv /\ [][C10_Act]_vars

\* a timer was stopped by a button after its sleep had run out
C10_Witness ==
    /\ last.executed
    /\ last.studio # None
    /\ \E id \in TaskIds :
          /\ tasks[id].st = "woken"
          /\ tasks[id].must_cancel
          /\ Slot(Self, tasks[id].kind) = None
          /\ ~In(tasks[id].kind, state)

\* the states whose name holds a timer's name
TimerStates == {s \in States \ {"noop"} : \E t \in Timers : In(t, s)}

\* the row a timer's trigger takes from each of these states
C11_Act ==
    /\ (TimerFires("immediate_state") /\ state = "automat_on_air_immediate_state_X") =>
          /\ state' = "automat_on_air"
          /\ x' = None
          /\ on_air_selector_value' = automat_selector_value
    /\ (TimerFires("immediate_state") /\ state = "studio_X_on_air_immediate_state") =>
          /\ state' = "studio_X_on_air"
          /\ x' = x
          /\ on_air_selector_value' = on_air_selector_value
    /\ (TimerFires("immediate_release") /\ state = "studio_X_on_air_immediate_release") =>
          /\ state' = "automat_on_air"
          /\ x' = None
          /\ on_air_selector_value' = automat_selector_value
    /\ (TimerFires("next_hour") /\ In("next_hour", state)) =>
          /\ state' \in {"automat_on_air", "studio_X_on_air"}
          /\ ~In("next_hour", state')

\* C11: the trigger of a state's timer takes the row the table declares
\* (both immediate states fall back after immediate_state_time, the immediate
\* release ends in automat_on_air with X empty and the automat on air, every
\* *_on_next_hour state is left at the hour); and when from some point on no
\* button event is handled any more, the machine comes to rest in a state
\* without a timer: every timer that was active has fired.
C11_TimersFireWithoutButtons ==
    /\ [][C11_Act]_vars
    /\ (<>[][~ConsumerStep]_vars) => <>[](state \notin TimerStates)

\* the immediate release has run out and put the automat on air
C11_Witness ==
    /\ last.executed
    /\ last.trigger = "immediate_release_timeout"
    /\ state = "automat_on_air"
    /\ x = None
    /\ on_air_selector_value = automat_selector_value

\* C12: a trigger without a row from the current state changes nothing: a
\* button event whose trigger has no row leaves the state, X, Y, the on-air
\* value, the timer slots and the timer tasks as they are (the pressing
\* studio is not bound), and a timeout without a row leaves the state, X, Y,
\* the on-air value and the slots of the other timers as they are.
C12_RejectedTriggerHasNoEffect ==
    [][/\ \A s \in Studios, b \in Button :
            (/\ ButtonStep(s, b)
             /\ Append_(Self, ButtonEvent(s, b)) # "none"
             /\ Rows(state, TriggerName(b, Append_(Self, ButtonEvent(s, b)))) = {}) =>
                UNCHANGED <<state, x, y, on_air_selector_value, next_hour_timer,
                            immediate_state_timer, immediate_release_timer, tasks,
                            critical, raised>>
       /\ \A t \in Timers :
            (TimerFires(t) /\ Rows(state, TimeoutTrigger(t)) = {}) =>
                /\ UNCHANGED <<state, x, y, on_air_selector_value>>
                /\ \A u \in Timers \ {t} : Slot(Self, u)' = Slot(Self, u)]_vars

\* a second studio's takeover during the immediate state was dropped and the
\* studio was not bound
C12_Witness ==
    /\ ~last.executed
    /\ last.trigger = "takeover_Y"
    /\ last.source = "studio_X_on_air_immediate_state"
    /\ state = "studio_X_on_air_immediate_state"
    /\ x \in Studios
    /\ last.studio # x
    /\ y = None

\* C13: while X and Y are both bound, a button pressed in a third studio
\* leaves the state, X, Y, the on-air value, the timer slots and the timer
\* tasks as they are.
C13_ThirdStudioIsIgnored ==
    [][\A s \in Studios, b \in Button :
          (/\ ButtonStep(s, b)
           /\ x # None
           /\ y # None
           /\ s \notin {x, y}) =>
              UNCHANGED <<state, x, y, on_air_selector_value, next_hour_timer,
                          immediate_state_timer, immediate_release_timer, tasks>>]_vars

\* a third studio has pressed a button during a takeover request
C13_Witness ==
    /\ last.trigger = "none"
    /\ last.studio \in Studios
    /\ x # None
    /\ y # None
    /\ last.studio \notin {x, y}
    /\ state = "studio_X_on_air_studio_Y_takeover_request"

\* C14: when the trigger derived from a button event has no row from the
\* current state, the step that handles the event leaves the pressing
\* studio's lamps showing red at BLINK_REALLY_FAST (the flash, which a later
\* step replaces by the state's lamp target).
C14_RejectedButtonFlashesLamp ==
    [][\A s \in Studios, b \in Button :
          (/\ ButtonStep(s, b)
           /\ Append_(Self, ButtonEvent(s, b)) # "none"
           /\ Rows(state, TriggerName(b, Append_(Self, ButtonEvent(s, b)))) = {}) =>
              lamp_state'.studios[s].red = "BLINK_REALLY_FAST"]_vars

\* C15: for every button event the consumer fires exactly the trigger
\* <button>_<suffix>, the suffix being X if the X slot is empty or X is the
\* pressing studio, otherwise Y if the Y slot is empty or Y is the pressing
\* studio, otherwise other.
C15_ConsumerFiresDerivedTrigger ==
    [][\A s \in Studios, b \in Button :
          ButtonStep(s, b) =>
              /\ last'.studio = s
              /\ last'.trigger =
                     IF x = None \/ x = s THEN TriggerName(b, "X")
                     ELSE IF y = None \/ y = s THEN TriggerName(b, "Y")
                     ELSE IF b = "takeover" THEN "takeover_other"
                     ELSE IF b = "release" THEN "release_other"
                     ELSE "immediate_other"]_vars

Settled == posted_set_state = {} /\ symnet.callback_queue = <<>>

\* C17: the convergence loop calls set_position infinitely often, each time
\* with the on-air value of that moment; so once the selector is no longer
\* moved at the device and no call is answered with NAK, the device's
\* position eventually equals the on-air value whenever no call is under way.
C17_LoopReassertsForever ==
    /\ []<><<AssureStep>>_vars
    /\ [][AssureStep => set_position_arg' = on_air_selector_value]_vars
    /\ (<>[][~(\E p \in 1 .. position_count : External(p)) /\ ~Reply(FALSE)]_vars) =>
           <>[](Settled => get_position(symnet.device) = on_air_selector_value)

\* C18: a failed set_position call does not end the convergence loop: after
\* every call the loop awaits, it comes to sleep for its next period.
C18_LoopSurvivesFailedCall == (assure_loop = "awaiting") ~> (assure_loop = "sleeping")

\* C19: load() of the file a process saved at its end gives the new
\* dispatcher the X, the Y and the state the old one had; its on-air value is
\* the automat's in the automat-on-air states and the selector value of X in
\* the others, and a _set_current_state task is posted with that value.
C19_SaveLoadRoundTrip ==
    [][Load =>
          /\ state' = state
          /\ x' = x
          /\ y' = y
          /\ on_air_selector_value' =
                 IF state \in AutomatFamily THEN automat_selector_value
                 ELSE studios_to_selector_value[x]
          /\ \E i \in DOMAIN ready' :
                 /\ ready'[i].type = "set_state"
                 /\ ready'[i].posted = on_air_selector_value']_vars

\* the takeover request of studio 2 against studio 1 was saved and loaded
C19_Witness ==
    /\ phase = "reloaded"
    /\ file = SaveState("record", studio_name(1), studio_name(2),
                        "studio_X_on_air_studio_Y_takeover_request")
    /\ state = "studio_X_on_air_studio_Y_takeover_request"
    /\ x = 1
    /\ y = 2
    /\ on_air_selector_value = studios_to_selector_value[1]

\* C20: a load() that fails (file missing, file without JSON, or a name for X
\* or Y that no studio carries) leaves the dispatcher as constructed: state
\* automat_on_air, X and Y empty, the automat's on-air value, no timer.
C20_FailedLoadLeavesInitial ==
    [][\A f \in Files :
          (/\ LoadAtStart(f)
           /\ \/ f.kind # "record"
              \/ f.x # null /\ ~known(f.x)
              \/ f.x # null /\ f.y # null /\ ~known(f.y)) =>
              /\ state' = "automat_on_air"
              /\ x' = None
              /\ y' = None
              /\ on_air_selector_value' = automat_selector_value
              /\ next_hour_timer' = None
              /\ immediate_state_timer' = None
              /\ immediate_release_timer' = None
              /\ \A id \in TaskIds : tasks'[id] = NoTask]_vars

\* how often an event is held by the queue or by a producer waiting in put
Held(ev) ==
    Cardinality({i \in DOMAIN queue : queue[i] = ev})
    + Cardinality({i \in DOMAIN putters : putters[i] = ev})
    + Cardinality({i \in DOMAIN ready : ready[i].type = "putter" /\ ready[i].ev = ev})

C21_Inv == Len(queue) <= 1

C21_Act ==
    /\ \A s \in Studios, b \in Button :
           PressFull(s, b) => /\ queue' = queue
                              /\ putters' = Append(putters, ButtonEvent(s, b))
    /\ Len(putters') < Len(putters) => ConsumerStep
    /\ queue' # queue =>
           \/ ConsumerStep /\ queue' = Tail(queue)
           \/ ~ConsumerStep /\ \E s \in Studios, b \in Button :
                                  queue' = Append(queue, ButtonEvent(s, b))
    /\ ConsumerStep =>
           /\ last'.studio = Head(queue).studio
           /\ last'.trigger \in {"none", TriggerName(Head(queue).button, "X"),
                                 TriggerName(Head(queue).button, "Y")}
           /\ \A s \in Studios, b \in Button :
                  Held(ButtonEvent(s, b))' =
                      Held(ButtonEvent(s, b)) - (IF ButtonEvent(s, b) = Head(queue) THEN 1 ELSE 0)
    /\ (PutterStep \/ \E dur \in {"far", "near", "now"} : TimerStep(dur) \/ SetStateStep
           \/ \E id \in TaskIds : Expire(id)) =>
           \A s \in Studios, b \in Button : Held(ButtonEvent(s, b))' = Held(ButtonEvent(s, b))

\* C21: the button-event queue never holds more than one event; a producer
\* that finds it full waits and is woken only when the consumer takes an
\* event; the consumer applies the event at the head of the queue and removes
\* exactly that one; no other step drops or duplicates an event held by the
\* queue or by a waiting producer.
C21_QueueSerializesEvents == []C21_Inv /\ [][C21_Act]_vars

\* a producer woken by the consumer finds the queue full again
C21_Witness ==
    /\ Len(queue) = 1
    /\ \E i \in DOMAIN ready : ready[i].type = "putter"
    /\ last.studio \in Studios

\* no transition is half done: roles, on-air value and timers are those of
\* the state
Finalized ==
    /\ In("X", state) <=> x # None
    /\ In("Y", state) <=> y # None
    /\ on_air_selector_value =
           IF state \in AutomatFamily THEN automat_selector_value
           ELSE studios_to_selector_value[x]
    /\ \A t \in Timers : Pending(Self, t) <=> In(t, state)

\* C22: every trigger, from a button event or from a timer, is applied to a
\* configuration in which no transition is half done, and the state, X, Y
\* and the on-air value change only within the one step that applies one
\* trigger from the state it found.
C22_TransitionsAreAtomic ==
    /\ []Finalized
    /\ [][(state' # state \/ x' # x \/ y' # y
              \/ on_air_selector_value' # on_air_selector_value) =>
             /\ ConsumerStep \/ \E dur \in {"far", "near", "now"} : TimerStep(dur)
             /\ last'.executed
             /\ last'.source = state
             /\ Rows(state, last'.trigger) # {}
             /\ state' = load_states_transitions[
                             CHOOSE k \in Rows(state, last'.trigger) :
                                 \A j \in Rows(state, last'.trigger) : k <= j].dest]_vars

\* the hour timer's transition has run while a button event waits in the queue
C22_Witness ==
    /\ last.executed
    /\ last.trigger = "next_hour"
    /\ queue # <<>>
    /\ state = "studio_X_on_air"

\* the callbacks of one executed transition, in the order they are called
HookOrder ==
    <<"before_state_change", "enter", "after_state_change",
      "_audit_state", "_assure_lamp_state", "_notify_machine_observers">>

\* what an observer called last, at the end of the transition, reads
SeenAtEnd ==
    [state |-> state, x |-> x, y |-> y,
     on_air_selector_value |-> on_air_selector_value,
     lamp_state |-> lamp_state, hooks |-> SubSeq(HookOrder, 1, 5)]

\* the lamp targets of the state, by role
Projected(st, sx, sy) ==
    [automat |-> lamp_state_target[st].automat,
     studios |-> [s \in Studios |->
                     IF s = sx THEN lamp_state_target[st].x
                     ELSE IF s = sy THEN lamp_state_target[st].y
                     ELSE lamp_state_target[st].other]]

C23_Inv ==
    /\ last.executed => observed # NoObserved
    /\ observed # NoObserved =>
           /\ observed.hooks = HookOrder
           /\ \A o \in Observers :
                  /\ observed.calls[o] = <<SeenAtEnd>>
                  /\ In("X", observed.calls[o][1].state) <=> observed.calls[o][1].x # None
                  /\ In("Y", observed.calls[o][1].state) <=> observed.calls[o][1].y # None
                  /\ observed.calls[o][1].on_air_selector_value =
                         IF observed.calls[o][1].state \in AutomatFamily
                         THEN automat_selector_value
                         ELSE studios_to_selector_value[observed.calls[o][1].x]
                  /\ observed.calls[o][1].lamp_state =
                         Projected(observed.calls[o][1].state, observed.calls[o][1].x,
                                   observed.calls[o][1].y)

\* C23: in every executed transition the hooks run in the order before,
\* enter, after, audit, lamps, observers; every observer is called once, last,
\* only by an executed transition, and reads the destination state with X, Y,
\* the on-air value and the lamps that belong to it (they are still the
\* dispatcher's own values when the step ends).
C23_HooksRunInOrder ==
    /\ []C23_Inv
    /\ [][observed' # observed =>
             /\ ConsumerStep \/ \E dur \in {"far", "near", "now"} : TimerStep(dur)
             /\ last'.executed
             /\ last'.source = state
             /\ \A o \in Observers : observed'.calls[o][1].state = state']_vars

\* the observer was called at the end of a transition whose row swaps Y to X
\* before the destination is entered, and read the new studio on air
C23_Witness ==
    /\ last.executed
    /\ last.trigger = "next_hour"
    /\ last.source = "from_studio_X_on_air_change_to_studio_Y_on_next_hour"
    /\ observed.hooks = HookOrder
    /\ \E s \in Studios :
           /\ observed.calls["dispatcher_observer"][1].x = s
           /\ observed.calls["dispatcher_observer"][1].on_air_selector_value =
                  studios_to_selector_value[s]
           /\ observed.calls["dispatcher_observer"][1].lamp_state.studios[s] =
                  lamp_state_target["studio_X_on_air"].x

\* C24: after every executed transition and after every processed button
\* event the automat has the state's target 'automat', the studio bound to X
\* the target 'x', the studio bound to Y the target 'y' and every other studio
\* the target 'other'.
C24_LampsShowTargets ==
    [][(\/ ConsumerStep
        \/ (\E dur \in {"far", "near", "now"} : TimerStep(dur)) /\ last'.executed /\ last' # last
        \/ state' # state \/ x' # x \/ y' # y) =>
          /\ lamp_state'.automat = lamp_state_target[state'].automat
          /\ \A s \in Studios :
                 /\ s = x' => lamp_state'.studios[s] = lamp_state_target[state'].x
                 /\ s = y' => lamp_state'.studios[s] = lamp_state_target[state'].y
                 /\ s \notin {x', y'} =>
                        lamp_state'.studios[s] = lamp_state_target[state'].other]_vars

\* a third studio's button event was processed while X and Y are bound: the
\* three studios show three different targets
C24_Witness ==
    /\ state = "studio_X_on_air_studio_Y_takeover_request"
    /\ last.trigger = "none"
    /\ last.studio \in Studios \ {x, y}
    /\ lamp_state.studios[x] = lamp_state_target[state].x
    /\ lamp_state.studios[y] = lamp_state_target[state].y
    /\ lamp_state.studios[last.studio] = lamp_state_target[state].other
    /\ lamp_state_target[state].y # lamp_state_target[state].other
    /\ lamp_state_target[state].x # lamp_state_target[state].y

\* C25: when _cleanup runs after the shutdown event, every timer task is
\* cancelled and no slot refers to one when the record is written, the record
\* holds the names of X and Y and the state of that moment, and afterwards no
\* trigger is called and the machine, X, Y and the on-air value stay as
\* recorded.
C25_ShutdownSavesFinalState ==
    /\ [][CleanupStep =>
             /\ next_hour_timer' = None
             /\ immediate_state_timer' = None
             /\ immediate_release_timer' = None
             /\ \A id \in TaskIds : tasks'[id].st # "done" => tasks'[id].must_cancel
             /\ file'.kind = "record"
             /\ file'.state = state
             /\ file'.x = (IF x # None THEN studio_name(x) ELSE null)
             /\ file'.y = (IF y # None THEN studio_name(y) ELSE null)]_vars
    /\ [][phase = "saved" =>
             /\ state' = state /\ x' = x /\ y' = y
             /\ on_air_selector_value' = on_air_selector_value
             /\ last' = last
             /\ file' = file]_vars

\* the record is written while a timer whose sleep has run out and the
\* consumer woken for a queued event still wait for their turn in the loop
C25_Witness ==
    /\ phase = "saved"
    /\ file.state = "automat_on_air_immediate_state_X"
    /\ consumer = "cancelled"
    /\ queue # <<>>
    /\ \E id \in TaskIds :
           /\ tasks[id].st = "woken"
           /\ tasks[id].must_cancel
           /\ \E i \in DOMAIN ready : ready[i].type = "timer" /\ ready[i].id = id

\* the step calls machine.trigger(name) while the machine is in st
Fired(name, st) ==
    /\ state = st
    /\ \/ /\ ConsumerStep
          /\ Append_(Self, Head(queue)) # "none"
          /\ TriggerName(Head(queue).button, Append_(Self, Head(queue))) = name
       \/ \E dur \in {"far", "near", "now"} :
              /\ TimerStep(dur)
              /\ Fires(Head(ready).id, dur)
              /\ TimeoutTrigger(tasks[Head(ready).id].kind) = name

\* C26: no two rows of the table have the same trigger and source, and for
\* every row, a call of its trigger while the machine is in its source
\* leaves the machine in its destination.
C26_TableIsDeterministic ==
    /\ \A i, j \in DOMAIN load_states_transitions :
           (/\ load_states_transitions[i].trigger = load_states_transitions[j].trigger
            /\ load_states_transitions[i].source = load_states_transitions[j].source) => i = j
    /\ [][\A i \in DOMAIN load_states_transitions :
              Fired(load_states_transitions[i].trigger, load_states_transitions[i].source) =>
                  state' = load_states_transitions[i].dest]_vars

\* the row (immediate_state_timeout, studio_X_on_air_immediate_state) has
\* been fired by its timer
C26_Witness ==
    /\ last.executed
    /\ last.trigger = "immediate_state_timeout"
    /\ last.source = "studio_X_on_air_immediate_state"
    /\ last.studio = None
    /\ state = "studio_X_on_air"

\* the consumer's step leaves the machine, the roles and the on-air value alone
Rejected ==
    /\ ~last'.executed
    /\ UNCHANGED <<state, x, y, on_air_selector_value>>

\* no press of the studio bound to Y changes X or the on-air value
YPressKeepsX ==
    (ConsumerStep /\ y # None /\ Head(queue).studio = y) =>
        UNCHANGED <<x, on_air_selector_value>>

NotLater(a, b) ==
    \/ utc_seconds(a) < utc_seconds(b)
    \/ utc_seconds(a) = utc_seconds(b) /\ a.microsecond <= b.microsecond

\* a is less than one hour after b
WithinAnHour(a, b) ==
    \/ utc_seconds(a) - utc_seconds(b) < 3600
    \/ utc_seconds(a) - utc_seconds(b) = 3600 /\ a.microsecond < b.microsecond

\* t is on an hour's boundary in UTC
OnTheHour(t) == t.utcoffset = 0 /\ t.minute = 0 /\ t.second = 0 /\ t.microsecond = 0

\* C28 as stated: calc_next_hour(now) is on an hour's boundary in UTC, not
\* before now, less than one hour after now, and the least such instant (the
\* hour's boundary before it lies before now).
C28_NextHourIsLeastBoundary ==
    next_hour # NoTime =>
        /\ OnTheHour(next_hour)
        /\ NotLater(now, next_hour)
        /\ WithinAnHour(next_hour, now)
        /\ ~NotLater(now, utc_datetime(utc_seconds(next_hour) - 3600, 0))

\* what the function does return: the first hour's boundary strictly after now
C28_FirstBoundaryAfterNow ==
    next_hour # NoTime =>
        /\ OnTheHour(next_hour)
        /\ ~NotLater(next_hour, now)
        /\ NotLater(utc_datetime(utc_seconds(next_hour) - 3600, 0), now)

\* once the selector is no longer moved at the device and the machine makes
\* no transition, the calls of set_position that observers asked for come to
\* an end
CallsEnd ==
    (<>[][/\ ~\E p \in 1 .. MaxExternal : External(p)
          /\ state' = state
          /\ last' = last]_vars) => <>[](posted_set_state = {})

\* C29: every call of set_position with the on-air value leaves the
\* controller at that value and the dispatcher as it was; a call that finds
\* the controller at that value already changes neither the controller's value
\* nor the device's and notifies no observer, so that no further call follows
\* from it: the calls that answer one external change end with the first call
\* that finds the value in place.
C29_ReassertIsIdempotent ==
    /\ CallsEnd
    /\ [][(SetPositionStep \/ AssureStep) =>
             /\ symnet'.raw_value = raw_of_position(on_air_selector_value)
             /\ set_position_arg' = on_air_selector_value
             /\ UNCHANGED <<Machine, queue, putters, consumer>>
             /\ symnet.raw_value = raw_of_position(on_air_selector_value) =>
                    /\ symnet'.raw_value = symnet.raw_value
                    /\ symnet'.device = symnet.device
                    /\ \/ ready' = ready
                       \/ ready # <<>> /\ ready' = Tail(ready)]_vars

\* the selector was moved at the device; the first call that answered it
\* changed the value back and notified the observer, the second found the
\* value in place and notified nobody: two calls wait for their replies and
\* no call is left to run
C29_Witness ==
    /\ last = NoCall
    /\ Len(symnet.callback_queue) = 2
    /\ \A i \in 1 .. 2 :
           /\ symnet.callback_queue[i].caller = "task"
           /\ symnet.callback_queue[i].cv = raw_of_position(on_air_selector_value)
    /\ symnet.raw_value = raw_of_position(on_air_selector_value)
    /\ symnet.device # symnet.raw_value
    /\ posted_set_state = {}

\* C30: every call of set_position ends, with the ACK, or with an error after
\* a NAK or a timeout, also when its reply is lost: the loop that awaits its
\* call does not await it forever.
C30_EveryCallEnds == (assure_loop = "awaiting") ~> (assure_loop # "awaiting")

\* the states in which a studio is on air
StudioFamily == (States \ AutomatFamily) \ {"noop"}

\* the on-air states in which the studio bound to X has asked to leave
Released ==
    {"from_studio_X_on_air_change_to_automat_on_next_hour",
     "from_studio_X_on_air_change_to_studio_Y_on_next_hour",
     "studio_X_on_air_immediate_release"}

\* the row the machine ran in this step hands X over to Y
SwapRan ==
    /\ last'.executed
    /\ \E i \in Rows(state, last'.trigger) : load_states_transitions[i].y_to_x

\* a step in which a studio is on air changes X or the on-air value
LeavesAir == state \in StudioFamily /\ (x' # x \/ on_air_selector_value' # on_air_selector_value)

\* C31: while a studio A is on air as X, X and the on-air value change only
\* in a step that runs a swap row or a row to automat_on_air, such a step
\* starts in a state A has asked to leave, a different studio becomes X only
\* by a swap row, and the machine enters a state A has asked to leave only by
\* a release press of A itself; the on-air family is entered at
\* studio_X_on_air. Hence no presses of other studios and no timers move A
\* off air before A has pressed release.
C31_OnlyOwnReleaseLeadsOffAir ==
    [][/\ LeavesAir =>
              /\ state \in Released
              /\ last'.executed /\ last'.source = state
              /\ SwapRan \/ state' = "automat_on_air"
              /\ last'.trigger \in {"next_hour", "takeover_Y", "immediate_release_timeout"}
       /\ (LeavesAir /\ x' # None) => (SwapRan /\ x' \in {y, last'.studio} /\ state' = "studio_X_on_air")
       /\ (state \in StudioFamily \ Released /\ state' \in Released) =>
              /\ ConsumerStep
              /\ Head(queue).studio = x
              /\ Head(queue).button = "release"
              /\ last'.trigger = "release_X"
       /\ (state \notin StudioFamily /\ state' \in StudioFamily) => state' = "studio_X_on_air"
      ]_vars

\* another studio has taken over after the studio on air pressed immediate
\* and release: X is the studio that pressed takeover
C31_Witness ==
    /\ state = "studio_X_on_air"
    /\ last.executed
    /\ last.source = "studio_X_on_air_immediate_release"
    /\ last.trigger = "takeover_Y"
    /\ x = last.studio
    /\ on_air_selector_value = studios_to_selector_value[x]

\* the consumer handles the press that repeats the one before it: the last
\* call of a trigger was the named one, from the source src, and ran a row,
\* and the same studio has pressed the same button again
Repeated(src, name, b) ==
    /\ last.executed
    /\ last.source = src
    /\ last.trigger = name
    /\ ConsumerStep
    /\ Head(queue).studio = last.studio
    /\ Head(queue).button = b

\* after the step no studio is bound to Y, no timer's slot holds a task and
\* every task that is not done has been cancelled
NothingRequested ==
    /\ y' = None
    /\ next_hour_timer' = None
    /\ immediate_state_timer' = None
    /\ immediate_release_timer' = None
    /\ \A id \in TaskIds : tasks'[id].st = "done" \/ tasks'[id].must_cancel

\* C32: a request is undone by repeating it. From automat_on_air, the second
\* takeover or immediate press of the same studio, with no event in between,
\* leaves the machine in automat_on_air with X and Y empty, the automat on
\* air and no timer running. From studio_X_on_air, the second release or
\* immediate press of X, or the second takeover press of another studio,
\* leaves it in studio_X_on_air with the same X, Y empty, the same on-air
\* value and no timer running (the first press has kept X and the on-air
\* value as well).
C32_RepeatedRequestIsUndone ==
    [][/\ (\/ Repeated("automat_on_air", "takeover_X", "takeover")
           \/ Repeated("automat_on_air", "immediate_X", "immediate")) =>
              /\ state' = "automat_on_air"
              /\ x' = None
              /\ on_air_selector_value' = automat_selector_value
              /\ NothingRequested
       /\ (\/ Repeated("studio_X_on_air", "release_X", "release")
           \/ Repeated("studio_X_on_air", "immediate_X", "immediate")
           \/ Repeated("studio_X_on_air", "takeover_Y", "takeover")) =>
              /\ state' = "studio_X_on_air"
              /\ x' = x
              /\ x' # None
              /\ on_air_selector_value' = on_air_selector_value
              /\ on_air_selector_value' = studios_to_selector_value[x']
              /\ NothingRequested
       /\ (ConsumerStep /\ state = "studio_X_on_air") =>
              UNCHANGED <<x, on_air_selector_value>>
      ]_vars

\* the studio on air has pressed immediate twice: the timer of the immediate
\* state was cancelled and the machine is back in studio_X_on_air
C32_Witness ==
    /\ state = "studio_X_on_air"
    /\ last.executed
    /\ last.source = "studio_X_on_air_immediate_state"
    /\ last.trigger = "immediate_X"
    /\ last.studio = x
    /\ y = None
    /\ immediate_state_timer = None
    /\ \E id \in TaskIds : tasks[id].kind = "immediate_state" /\ tasks[id].must_cancel

\* the step replaces the running timer `old` by a new task of the timer
\* `new`: the task in the slot of `old` is cancelled and its slot emptied,
\* the slot of `new` was empty and now holds a task that has not run yet,
\* and no other task of the timer `new` will still fire
Replaces(old, new) ==
    /\ Pending(Self, old)
    /\ Slot(Self, old)' = None
    /\ \/ tasks'[Slot(Self, old)].st = "done"
       \/ tasks'[Slot(Self, old)].must_cancel
    /\ Slot(Self, new) = None
    /\ Slot(Self, new)' # None
    /\ tasks'[Slot(Self, new)'] = Task(new, "new", FALSE, "none")
    /\ \A id \in TaskIds \ {Slot(Self, new)'} :
           tasks'[id].kind = new => (tasks'[id].st = "done" \/ tasks'[id].must_cancel)

\* a task of an immediate timer runs: it begins its one sleep of the whole
\* duration when it has not run yet, it fires only after that sleep, and
\* only as the task in its timer's slot
WholeSleep ==
    \A dur \in {"far", "near", "now"} :
        (TimerStep(dur) /\ tasks[Head(ready).id].kind \in {"immediate_state", "immediate_release"}) =>
            /\ (tasks[Head(ready).id].st = "new" /\ ~tasks[Head(ready).id].must_cancel) =>
                   /\ tasks'[Head(ready).id] =
                          Task(tasks[Head(ready).id].kind, "sleeping", FALSE, "timeout")
                   /\ UNCHANGED <<state, last>>
            /\ Fires(Head(ready).id, dur) =>
                   /\ tasks[Head(ready).id] =
                          Task(tasks[Head(ready).id].kind, "woken", FALSE, "timeout")
                   /\ Slot(Self, tasks[Head(ready).id].kind) = Head(ready).id

\* C33: the step from studio_X_on_air_immediate_state to
\* studio_X_on_air_immediate_release cancels the immediate_state timer and
\* starts the immediate_release timer; the step back, by takeover_X or
\* release_X, cancels the immediate_release timer and starts a new
\* immediate_state timer, which sleeps its whole duration before it fires:
\* the cancelled task of the earlier immediate state does not fire.
C33_ImmediateTimersRestart ==
    [][/\ (state = "studio_X_on_air_immediate_state"
              /\ state' = "studio_X_on_air_immediate_release") =>
              /\ last'.trigger = "release_X"
              /\ Replaces("immediate_state", "immediate_release")
       /\ (state = "studio_X_on_air_immediate_release"
              /\ state' = "studio_X_on_air_immediate_state") =>
              /\ last'.trigger \in {"takeover_X", "release_X"}
              /\ Replaces("immediate_release", "immediate_state")
       /\ WholeSleep
      ]_vars

\* the machine is back in the immediate state after a release and a second
\* press: the release timer is cancelled and a new immediate_state task,
\* which has not begun its sleep, is in the slot
C33_Witness ==
    /\ state = "studio_X_on_air_immediate_state"
    /\ last.executed
    /\ last.source = "studio_X_on_air_immediate_release"
    /\ last.trigger \in {"takeover_X", "release_X"}
    /\ immediate_release_timer = None
    /\ \E id \in TaskIds : tasks[id].kind = "immediate_release" /\ tasks[id].must_cancel
    /\ immediate_state_timer # None
    /\ tasks[immediate_state_timer] = Task("immediate_state", "new", FALSE, "none")

\* the states one row of the table leads to from a state of S, with S
TableStep(S) ==
    S \cup {load_states_transitions[i].dest :
               i \in {j \in 1 .. Len(load_states_transitions) :
                         load_states_transitions[j].source \in S}}

\* the states the rows of the table lead to from automat_on_air in at most
\* n steps
RECURSIVE TableReach(_)
TableReach(n) == IF n = 0 THEN {"automat_on_air"} ELSE TableStep(TableReach(n - 1))

\* C34: no sequence of button events and timer triggers from the initial
\* state takes the machine to noop, and the rows of the table lead from
\* automat_on_air to each of the nine other states.
C34_NoopIsNeverReached ==
    /\ state # "noop"
    /\ state \in TableReach(Cardinality(States))
    /\ TableReach(Cardinality(States)) = States \ {"noop"}

\* the state farthest from automat_on_air: a second studio waits for the
\* next hour to replace the one on air, after an immediate_Y press that the
\* machine has dropped
C34_Witness ==
    /\ state = "from_studio_X_on_air_change_to_studio_Y_on_next_hour"
    /\ last.trigger = "immediate_Y"
    /\ ~last.executed
    /\ x # None
    /\ y # None

\* the bindings of X and Y a state allows: a studio for each letter in the
\* state's name, no studio for a letter the name lacks, and never one studio
\* in both roles
Roles(st) ==
    {r \in (Studios \cup {None}) \X (Studios \cup {None}) :
        /\ r[1] # None <=> In("X", st)
        /\ r[2] # None <=> In("Y", st)
        /\ r[1] # None => r[1] # r[2]}

\* C35: any two distinct states of the state table have distinct lamp
\* targets, and the lamps the automat and the studios show, once they have
\* been set, are those of the machine's state and of no other state of the
\* table, whichever studios that state would bind to X and Y.
C35_LampTargetsAreDistinct ==
    /\ \A a, b \in States : a # b => lamp_state_target[a] # lamp_state_target[b]
    /\ lamp_state # NoLamps =>
           /\ lamp_state = Projected(state, x, y)
           /\ \A st \in States : \A r \in Roles(st) :
                  lamp_state = Projected(st, r[1], r[2]) => st = state

\* three studios show the three targets of the takeover request, set by the
\* transition into it
C35_Witness ==
    /\ state = "studio_X_on_air_studio_Y_takeover_request"
    /\ last.executed
    /\ last.trigger = "takeover_Y"
    /\ lamp_state # NoLamps
    /\ lamp_state = Projected(state, x, y)
    /\ \E s \in Studios \ {x, y} : lamp_state.studios[s] = lamp_state_target[state].other

\* get_position has returned the position set_position was called with
RoundTrip == conversion.returned # 0 => conversion.returned = conversion.position

\* the raw value of a position is one the controller can hold
RawInRange == conversion.sc # 0 => conversion.raw_value \in 0 .. 65535

\* C36 as stated: for every selector count N >= 2 and every position p in
\* 1..N the raw value of p lies in 0..65535 and converts back to p.
C36_RoundTripForEveryCount == RawInRange /\ RoundTrip

\* C36: for every selector count N from 2 to 65536 and every position p in
\* 1..N the raw value of p converts back to p, for every selector count the
\* raw value lies in 0..65535, and the dispatcher's selector of
\* position_count positions returns from get_position the position
\* set_position was called with.
C36_RoundTripUpTo65536 ==
    /\ RawInRange
    /\ conversion.sc <= 65536 => RoundTrip
    /\ \A p \in 1 .. position_count :
           /\ raw_of_position(p) = get_value_by_selector_number(p, position_count)
           /\ get_position(raw_of_position(p)) = p

\* the middle position of a selector with three positions, whose raw value
\* 32767.5 is rounded to the even 32768, has come back from get_position
C36_Witness ==
    /\ conversion.sc = 3
    /\ conversion.position = 2
    /\ conversion.raw_value = 32768
    /\ conversion.returned = 2

\* no task waits for its cancellation while a newer task of its kind exists
OneTaskPerTimer ==
    \A id \in TaskIds :
        (tasks[id].st # "done" /\ tasks[id].must_cancel) => Slot(Self, tasks[id].kind) = None

====
